---- MODULE Spec2Model ----
\* Verification model of the DNSMatrix dispatch / result-collection pipeline:
\* the dispatcher (RequestService.CreateRequest), the outbox publisher, the
\* inbox subscriber, the agent check executor and the result stream.
EXTENDS Integers, Sequences, FiniteSets, TLC

\* ---------------------------------------------------------------- bounds
MaxCalls == 1
MaxRows == 2
MaxTicks == 3
WorkerCount == 1
BatchSize == 1
MaxMsgs == 2
MaxDeliveries == 3
SubWorkerCount == 2
MaxChecks == 2
MaxResults == 2
MaxFrames == 3
MaxClock == 21
MaxRuns == 2
SubPipeCap == 2
MaxHalfHours == 3

\* ------------------------------------------------------ program constants
BathSizeMultiply == 5

\* ------------------------------------------------------------- variables
VARIABLES
    agents,       \* domain.agents rows
    requests,     \* committed domain.requests rows
    assignments,  \* committed domain.assignments rows
    outbox,       \* committed messages.outbox_messages rows
    clock,        \* database NOW(), a logical timestamp
    call,         \* CreateRequest invocations: position and open transaction
    lastBatch,    \* rows returned by the reader's last SelectUnsentBatch
    ctxDone,      \* the publisher's context was cancelled
    runPc,        \* Publisher.Run: "select", "enqueue" or "stopped"
    batch,        \* rows of the current tick not yet sent into messagePipe
    ticks,        \* ticker firings so far
    messagePipe,  \* the buffered channel between Run and the workers
    pipeClosed,   \* close(messagePipe) was executed
    worker,       \* Publisher.worker goroutines: position and message held
    pushLog,      \* every PushMessage call of the publisher, in a set
    inboxTable,   \* committed messages.inbox_messages rows
    checkResults, \* committed domain.check_results rows
    resultTopic,  \* the messages of the result topic, by offset
    delivered,    \* deliveries of the consumer group so far
    subPipe,      \* Subscriber.Run's channel to its workers
    acked,        \* offsets for which Mark was called
    subWorker,    \* Subscriber.worker goroutines: position, message, open tx
    nextResultId, \* the next fresh uuid of a CheckResult
    agentTask,    \* the task message an agent worker received
    agentPc,      \* agent worker: "process", "wait", "mark" or "idle"
    agentRun,     \* RunCheck: "no", "running" or "returned"
    check,        \* RunCheck's goroutines: position and result
    taskCtx,      \* RunCheck's contexts: which deadlines have expired
    produced,     \* the messages the agent put on the result topic
    streamPc,     \* StreamResults: "open", "loop", "ctxDone" or how it returned
    streamId,     \* StreamResults: the parsed request_id
    frames,       \* the frames written to the websocket, in order
    lastHash,     \* StreamResults: hash of the last list sent
    probe,        \* one check on its way through ParseTask, RunCheck and runOne
    trace,        \* runTraceroute: tool output, hops, geo cache and its backend
    shutdown,     \* App.Shutdown: position, failing steps and the error built
    mainProc,     \* main: its select, the errors channel and the Run goroutine
    subRun        \* Subscriber.Run: position, its context and messagePipe

dispatchVars == <<agents, requests, assignments, call, lastBatch>>
publisherVars ==
    <<ctxDone, runPc, batch, ticks, messagePipe, pipeClosed, worker, pushLog>>

subscriberVars ==
    <<inboxTable, checkResults, resultTopic, delivered, subPipe, acked,
      subWorker, nextResultId>>

agentVars == <<agentTask, agentPc, agentRun, check, taskCtx, produced>>
streamVars == <<streamPc, streamId, frames, lastHash>>
probeVars == <<probe>>
lifeVars == <<trace, shutdown, mainProc, subRun>>

\* What the dispatcher and what the publisher leave alone.
outsideDispatch ==
    <<publisherVars, subscriberVars, agentVars, streamVars, probeVars,
      lifeVars>>
outsidePublisher ==
    <<dispatchVars, subscriberVars, agentVars, streamVars, probeVars,
      lifeVars>>

vars ==
    <<agents, requests, assignments, outbox, clock, call, lastBatch,
      ctxDone, runPc, batch, ticks, messagePipe, pipeClosed, worker, pushLog,
      inboxTable, checkResults, resultTopic, delivered, subPipe, acked,
      subWorker, nextResultId,
      agentTask, agentPc, agentRun, check, taskCtx, produced,
      streamPc, streamId, frames, lastHash, probe,
      trace, shutdown, mainProc, subRun>>

\* ------------------------------------------------------------ dispatcher
Calls == 1..MaxCalls

\* Continent codes of the country database, "" when the IP is nil or unknown.
Continents == {"", "AF", "AN", "AS", "EU", "NA", "OC", "SA"}

\* The agent rows seeded by the migration.
SeedAgents ==
    { [id |-> "6d40a8b9", region |-> "APAC"],
      [id |-> "f022e955", region |-> "US"],
      [id |-> "1832f867", region |-> "EU"] }

baseProduceTopic == "hosts-check"

\* Geo.Lookup: region from the continent code.
Lookup(continent) ==
    CASE continent = "US" -> "US"
      [] continent \in {"AS", "OC"} -> "APAC"
      [] OTHER -> "EU"

\* The client addresses a request can come from: none (net.ParseIP gave nil),
\* one the geo databases do not know, and one they know.
NilIP == "nil"
ClientIPs == {NilIP, "203.0.113.7", "1.2.4.8"}

\* asnDB.ASN and countryDB.Country: the record of an address, if there is one.
GeoRecord(ip) ==
    IF ip = "1.2.4.8"
    THEN [found |-> TRUE, asn |-> 4134, cc |-> "CN", continent |-> "AS"]
    ELSE [found |-> FALSE, asn |-> 0, cc |-> "", continent |-> ""]

\* The lookup without the early return for a nil address.
LookupGeoNoFallback(ip) ==
    [ASN |-> IF GeoRecord(ip).found THEN GeoRecord(ip).asn ELSE 0,
     CC |-> IF GeoRecord(ip).found THEN GeoRecord(ip).cc ELSE "",
     Continent |-> GeoRecord(ip).continent,
     Region |-> IF GeoRecord(ip).found THEN Lookup(GeoRecord(ip).continent)
                ELSE ""]

\* Geo.Lookup: the GeoInfo of a client address.
LookupGeo(ip) ==
    IF ip = NilIP
    THEN [ASN |-> 0, CC |-> "", Continent |-> "", Region |-> "EU"]
    ELSE [ASN |-> IF GeoRecord(ip).found THEN GeoRecord(ip).asn ELSE 0,
          CC |-> IF GeoRecord(ip).found THEN GeoRecord(ip).cc ELSE "",
          Continent |-> IF GeoRecord(ip).found THEN GeoRecord(ip).continent
                        ELSE "",
          Region |-> Lookup(IF GeoRecord(ip).found
                            THEN GeoRecord(ip).continent ELSE "")]

\* fmt.Sprintf("%s-%s", baseProduceTopic, region)
Topic(region) == baseProduceTopic \o "-" \o region

\* json.Marshal(taskMessage): the serialized envelope, field by field.
MarshalTask(id, region) ==
    <<"id", id, "metadata", <<"origin", "api", "region", region>>>>

\* The id field of a serialized envelope.
TaskIdOf(payload) == payload[2]

\* OutboxRepository.InsertMessage: INSERT ... ON CONFLICT DO NOTHING.
InsertMessage(rows, visible, row) ==
    IF \E r \in rows \cup visible : r.id = row.id THEN rows ELSE rows \cup {row}

\* SELECT id, region ... FROM domain.agents: the rows in some order.
RECURSIVE Orderings(_)
Orderings(S) ==
    IF S = {} THEN {<<>>}
    ELSE UNION { { <<x>> \o s : s \in Orderings(S \ {x}) } : x \in S }

SelectAgents == Orderings(agents)

\* SELECT ... WHERE region = $1 scanned by QueryRow: a matching row, or
\* ErrNoRows (the empty set) when there is none.
SelectAgentByRegion(region) == { a \in agents : a.region = region }

NoTx == [req |-> {}, out |-> {}, asg |-> {}]

IdleCall ==
    [pc |-> "idle", broadcast |-> FALSE, ip |-> NilIP, asn |-> 0, cc |-> "",
     region |-> "EU", startedAt |-> 0, todo |-> <<>>, k |-> 0, tx |-> NoTx]

\* CreateRequest up to Pool().Begin: geo lookup, envelope, open transaction.
Begin(c) ==
    /\ call[c].pc = "idle"
    /\ \E b \in BOOLEAN, ip \in ClientIPs :
         call' = [call EXCEPT ![c] =
                    [IdleCall EXCEPT !.pc = "insertRequest", !.broadcast = b,
                                     !.ip = ip,
                                     !.asn = LookupGeo(ip).ASN,
                                     !.cc = LookupGeo(ip).CC,
                                     !.region = LookupGeo(ip).Region,
                                     !.startedAt = clock]]
    /\ clock' = clock + 1
    /\ UNCHANGED <<agents, requests, assignments, outbox, lastBatch,
                   outsideDispatch>>

\* Pool().Begin fails: CreateRequest returns the error, nothing was written.
BeginFail(c) ==
    /\ call[c].pc = "idle"
    /\ call' = [call EXCEPT ![c].pc = "error"]
    /\ UNCHANGED <<agents, requests, assignments, outbox, clock, lastBatch,
                   outsideDispatch>>

\* RequestRepository.InsertRequest inside the transaction.
InsertRequest(c) ==
    /\ call[c].pc = "insertRequest"
    /\ call' = [call EXCEPT
                  ![c].pc = "selectAgents",
                  ![c].tx.req = @ \cup
                      { [id |-> c, broadcast |-> call[c].broadcast,
                         clientIP |-> call[c].ip,
                         clientASN |-> call[c].asn, clientCC |-> call[c].cc,
                         clientRegion |-> call[c].region,
                         requestJSON |-> MarshalTask(c, call[c].region),
                         status |-> "PENDING"] }]
    /\ UNCHANGED <<agents, requests, assignments, outbox, clock, lastBatch,
                   outsideDispatch>>

\* The broadcast branch stopping after the first agent row.
SelectTargetsFirstOnly(c) ==
    /\ call[c].pc = "selectAgents"
    /\ IF call[c].broadcast
       THEN \E order \in SelectAgents :
              call' = [call EXCEPT
                         ![c].todo = IF order = <<>> THEN <<>>
                                      ELSE <<Head(order)>>,
                         ![c].pc = IF order = <<>> THEN "commit"
                                   ELSE "insertMessage"]
       ELSE IF SelectAgentByRegion(call[c].region) = {}
            THEN call' = [call EXCEPT ![c].pc = "error", ![c].tx = NoTx]
            ELSE \E a \in SelectAgentByRegion(call[c].region) :
                   call' = [call EXCEPT ![c].todo = <<a>>,
                                        ![c].pc = "insertMessage"]
    /\ UNCHANGED <<agents, requests, assignments, outbox, clock, lastBatch,
                   outsideDispatch>>

\* SelectAgents (broadcast) or SelectAgentByRegion (nearest region).
SelectTargets(c) ==
    /\ call[c].pc = "selectAgents"
    /\ IF call[c].broadcast
       THEN \E order \in SelectAgents :
              call' = [call EXCEPT
                         ![c].todo = order,
                         ![c].pc = IF order = <<>> THEN "commit"
                                   ELSE "insertMessage"]
       ELSE IF SelectAgentByRegion(call[c].region) = {}
            THEN call' = [call EXCEPT ![c].pc = "error", ![c].tx = NoTx]
            ELSE \E a \in SelectAgentByRegion(call[c].region) :
                   call' = [call EXCEPT ![c].todo = <<a>>,
                                        ![c].pc = "insertMessage"]
    /\ UNCHANGED <<agents, requests, assignments, outbox, clock, lastBatch,
                   outsideDispatch>>

\* The region the topic is derived from: the agent's when broadcasting, the
\* client's otherwise.
TopicRegion(c) ==
    IF call[c].broadcast THEN Head(call[c].todo).region ELSE call[c].region

\* InsertMessage called with a nil extension: the row is written through the
\* pool, outside the transaction.
InsertOutboxNoTx(c) ==
    /\ call[c].pc = "insertMessage"
    /\ LET row == [id |-> <<c, call[c].k + 1>>,
                   topic |-> Topic(TopicRegion(c)),
                   payload |-> MarshalTask(c, call[c].region),
                   createdAt |-> call[c].startedAt,
                   sent |-> FALSE, sentAt |-> 0]
       IN /\ outbox' = InsertMessage(outbox, {}, row)
          /\ call' = [call EXCEPT ![c].pc = "insertAssignment",
                                  ![c].k = @ + 1]
    /\ UNCHANGED <<agents, requests, assignments, clock, lastBatch,
                   outsideDispatch>>

\* outboxRepo.InsertMessage for the agent at the head of the loop.
InsertOutbox(c) ==
    /\ call[c].pc = "insertMessage"
    /\ LET row == [id |-> <<c, call[c].k + 1>>,
                   topic |-> Topic(TopicRegion(c)),
                   payload |-> MarshalTask(c, call[c].region),
                   createdAt |-> call[c].startedAt,
                   sent |-> FALSE, sentAt |-> 0]
       IN call' = [call EXCEPT
                     ![c].pc = "insertAssignment",
                     ![c].k = @ + 1,
                     ![c].tx.out = InsertMessage(@, outbox, row)]
    /\ UNCHANGED <<agents, requests, assignments, outbox, clock, lastBatch,
                   outsideDispatch>>

\* requestRepo.InsertAssignment for the same agent, then the next iteration.
InsertAssignment(c) ==
    /\ call[c].pc = "insertAssignment"
    /\ LET a == Head(call[c].todo)
           asg == [id |-> <<c, call[c].k>>, requestId |-> c,
                   agentId |-> a.id, agentRegion |-> a.region,
                   outboxId |-> <<c, call[c].k>>, status |-> "PENDING"]
       IN call' = [call EXCEPT
                     ![c].tx.asg = @ \cup {asg},
                     ![c].todo = Tail(@),
                     ![c].pc = IF Tail(call[c].todo) = <<>> THEN "commit"
                               ELSE "insertMessage"]
    /\ UNCHANGED <<agents, requests, assignments, outbox, clock, lastBatch,
                   outsideDispatch>>

\* tx.Commit: the transaction's rows become visible together.
Commit(c) ==
    /\ call[c].pc = "commit"
    /\ requests' = requests \cup call[c].tx.req
    /\ outbox' = outbox \cup call[c].tx.out
    /\ assignments' = assignments \cup call[c].tx.asg
    /\ call' = [call EXCEPT ![c].pc = "ok"]
    /\ UNCHANGED <<agents, clock, lastBatch, outsideDispatch>>

\* A failure whose transaction is not rolled back: the rows written so far
\* stay.
DbErrorNoRollback(c) ==
    /\ call[c].pc \in {"insertRequest", "selectAgents", "insertMessage",
                       "insertAssignment", "commit"}
    /\ requests' = requests \cup call[c].tx.req
    /\ outbox' = outbox \cup call[c].tx.out
    /\ assignments' = assignments \cup call[c].tx.asg
    /\ call' = [call EXCEPT ![c].pc = "error", ![c].tx = NoTx]
    /\ UNCHANGED <<agents, clock, lastBatch, outsideDispatch>>

\* A statement or the commit fails: the deferred Rollback discards the
\* transaction and CreateRequest returns the error.
DbError(c) ==
    /\ call[c].pc \in {"insertRequest", "selectAgents", "insertMessage",
                       "insertAssignment", "commit"}
    /\ call' = [call EXCEPT ![c].pc = "error", ![c].tx = NoTx]
    /\ UNCHANGED <<agents, requests, assignments, outbox, clock, lastBatch,
                   outsideDispatch>>

\* RequestHandler.CreateRequest: the status of the response to a call that
\* has returned, 0 while it has not.
HttpStatus(c) ==
    IF call[c].pc = "error" THEN 500
    ELSE IF call[c].pc = "ok" THEN 201
    ELSE 0

\* --------------------------------------------------- outbox repository
\* The orderings of a set of rows that ORDER BY created_at allows.
ByCreatedAt(S) ==
    { o \in Orderings(S) :
        \A i \in 1..Len(o) - 1 : o[i].createdAt <= o[i + 1].createdAt }

Min(a, b) == IF a <= b THEN a ELSE b

\* OutboxRepository.SelectUnsentBatch: WHERE sent = false ORDER BY created_at
\* LIMIT batchSize, the possible result lists.
SelectUnsentBatch(rows, batchSize) ==
    LET unsent == { r \in rows : ~r.sent }
    IN { SubSeq(o, 1, Min(batchSize, Len(o))) : o \in ByCreatedAt(unsent) }

\* OutboxRepository.UpdateAsSent: SET sent = true, sent_at = NOW() WHERE id.
UpdateAsSent(rows, id, now) ==
    { IF r.id = id THEN [r EXCEPT !.sent = TRUE, !.sentAt = now] ELSE r :
        r \in rows }

\* uuid.UUID.MarshalBinary: the 16 bytes of the id.
MarshalBinary(id) == <<"b16", id>>

\* --------------------------------------------------- dispatch and reader
\* A reader outside every transaction runs SelectUnsentBatch.
FreshRead ==
    /\ \E b \in SelectUnsentBatch(outbox, BatchSize) : lastBatch' = b
    /\ lastBatch' # lastBatch
    /\ UNCHANGED <<agents, requests, assignments, outbox, clock, call,
                   outsideDispatch>>

\* ----------------------------------------------------- inbox subscriber
SubWorkers == 1..SubWorkerCount

\* The zero value of a worker's message and of its transaction.
NoDelivery ==
    [offset |-> 0, key |-> [len |-> 0, id |-> 0],
     value |-> [fmt |-> "", taskId |-> 0, checkIndex |-> 0, type |-> "",
                startedAt |-> 0, ok |-> FALSE]]

NoSubTx == [inbox |-> {}, results |-> {}]

SubscriberIdle ==
    /\ inboxTable = {} /\ checkResults = {}
    /\ resultTopic = <<>>
    /\ delivered = 0
    /\ subPipe = <<>> /\ acked = {}
    /\ subWorker = [w \in SubWorkers |->
                      [pc |-> "recv", msg |-> NoDelivery, tx |-> NoSubTx,
                       err |-> "none"]]
    /\ nextResultId = 1

\* ------------------------------------------------------------ agent, stream
NoTask == [id |-> 0, checks |-> <<>>, timeoutSeconds |-> 0]

NoCheck == [pc |-> "none", ok |-> FALSE, expired |-> FALSE]

AgentIdle ==
    /\ agentTask = NoTask
    /\ agentPc = "idle" /\ agentRun = "no"
    /\ check = [i \in 1..MaxChecks |-> NoCheck]
    /\ taskCtx = [done |-> FALSE, per |-> [i \in 1..MaxChecks |-> FALSE],
                  timeout |-> 0]
    /\ produced = <<>>

\* The zero value of lastHash.
NoHash == <<>>

StreamIdle ==
    /\ streamPc = "open" /\ streamId = 0
    /\ frames = <<>> /\ lastHash = NoHash

\* ------------------------------------------------------------ one check
\* A JSON value of a check's params map after json.Unmarshal into
\* map[string]interface{}: a number, a string (its characters) or an array;
\* Absent stands for a key the map does not hold.
Absent == [k |-> "absent", n |-> 0, s |-> <<>>, a |-> <<>>]
JNum(n) == [k |-> "num", n |-> n, s |-> <<>>, a |-> <<>>]
JStr(s) == [k |-> "str", n |-> 0, s |-> s, a |-> <<>>]
JArr(a) == [k |-> "arr", n |-> 0, s |-> <<>>, a |-> a]

\* The keys of Params the model follows: the numeric fields of
\* model.HTTPParams, PingParams, TCPParams and TracerouteParams, the status
\* range and the dns records.
ParamNames ==
    {"expectedStatusRange", "maxBodyBytes", "count", "intervalMs", "port",
     "connectTimeoutMs", "maxHops", "records"}

\* The zero values of the params structs; a field a kind's struct does not
\* have stays at its zero value.
ZeroParams ==
    [expectedStatusRange |-> <<0, 0>>, maxBodyBytes |-> 0, count |-> 0,
     intervalMs |-> 0, port |-> 0, connectTimeoutMs |-> 0, maxHops |-> 0,
     records |-> <<>>]

\* The payload handed to makeResTemplate: nil, or a map with these keys
\* (and the status code, for http).
NilPayload == [set |-> FALSE, keys |-> {}, status |-> 0]
Payload(keys, status) == [set |-> TRUE, keys |-> keys, status |-> status]

\* The zero model.CheckResult.
NoResult == [type |-> "", ok |-> FALSE, error |-> "", payload |-> NilPayload]

NoProbe ==
    [pc |-> "idle", type |-> "", params |-> [f \in ParamNames |-> Absent],
     timeoutSeconds |-> 0, parentDone |-> FALSE, norm |-> ZeroParams,
     now |-> 0, deadline |-> 0, perDeadline |-> 0, startedAt |-> 0,
     res |-> NoResult]

ProbeIdle == probe = NoProbe

\* runTraceroute has not run; the geo-IP backend was never asked.
NoTrace ==
    [pc |-> "idle", runs |-> 0, output |-> <<>>, ips |-> <<>>, hops |-> <<>>,
     mapt |-> {}, now |-> 0, geoLog |-> <<>>]

\* App.Shutdown was not called.
NoShutdown ==
    [pc |-> "idle", fails |-> {}, ran |-> {}, err |-> <<>>, ret |-> "none"]

\* main before its goroutine and its select.
NoMain ==
    [pc |-> "idle", kind |-> "", ctxDone |-> FALSE, closed |-> FALSE,
     run |-> "idle"]

\* Subscriber.Run before it was started.
NoSubRun ==
    [pc |-> "idle", ctxDone |-> FALSE, closed |-> FALSE, msg |-> NoDelivery]

LifeIdle ==
    /\ trace = NoTrace /\ shutdown = NoShutdown
    /\ mainProc = NoMain /\ subRun = NoSubRun

\* The zero model.OutboxMessage a worker holds between two receives.
NoMsg ==
    [id |-> <<0, 0>>, topic |-> "", payload |-> <<>>, createdAt |-> 0,
     sent |-> FALSE, sentAt |-> 0]

PublisherIdle ==
    /\ ctxDone = FALSE /\ runPc = "select" /\ batch = <<>> /\ ticks = 0
    /\ messagePipe = <<>> /\ pipeClosed = FALSE
    /\ worker = [w \in 1..WorkerCount |-> [pc |-> "recv", msg |-> NoMsg]]
    /\ pushLog = {}

InitDispatch ==
    /\ agents \in SUBSET SeedAgents
    /\ requests = {} /\ assignments = {} /\ outbox = {}
    /\ clock = 1
    /\ call = [c \in Calls |-> IdleCall]
    /\ lastBatch = <<>>
    /\ PublisherIdle
    /\ SubscriberIdle
    /\ AgentIdle
    /\ StreamIdle
    /\ ProbeIdle
    /\ LifeIdle

NextDispatch ==
    \/ \E c \in Calls : Begin(c)
    \/ \E c \in Calls : BeginFail(c)
    \/ \E c \in Calls : InsertRequest(c)
    \/ \E c \in Calls : SelectTargets(c)
    \/ \E c \in Calls : InsertOutbox(c)
    \/ \E c \in Calls : InsertAssignment(c)
    \/ \E c \in Calls : Commit(c)
    \/ \E c \in Calls : DbError(c)
    \/ FreshRead

SpecDispatch == InitDispatch /\ [][NextDispatch]_vars

\* ------------------------------------------------------ outbox publisher
Workers == 1..WorkerCount

\* make(chan model.OutboxMessage, p.cfg.BatchSize*BathSizeMultiply)
PipeCap == BatchSize * BathSizeMultiply

\* The row of the table a message was copied from is marked sent.
IsSent(id) == \E r \in outbox : r.id = id /\ r.sent

\* Run, case <-ticker.C with a successful SelectUnsentBatch: the batch is
\* handed to the enqueue loop.
Poll ==
    /\ runPc = "select"
    /\ ~ctxDone
    /\ \E msgs \in SelectUnsentBatch(outbox, BatchSize) :
         /\ batch' = msgs
         /\ runPc' = IF msgs = <<>> THEN "select" ELSE "enqueue"
    /\ UNCHANGED <<outbox, clock, ctxDone, messagePipe, pipeClosed, worker,
                   pushLog, outsidePublisher>>

\* A tick of the bounded ticker.
Tick == ticks < MaxTicks /\ ticks' = ticks + 1 /\ Poll

\* Run, case <-ticker.C with a failing SelectUnsentBatch: logged, continue.
TickFail ==
    /\ runPc = "select"
    /\ ticks < MaxTicks
    /\ ticks' = ticks + 1
    /\ UNCHANGED <<outbox, clock, ctxDone, runPc, batch, messagePipe,
                   pipeClosed, worker, pushLog, outsidePublisher>>

\* Run, messagePipe <- msg: blocks while the buffer is full.
Enqueue ==
    /\ runPc = "enqueue"
    /\ Len(messagePipe) < PipeCap
    /\ messagePipe' = Append(messagePipe, Head(batch))
    /\ batch' = Tail(batch)
    /\ runPc' = IF Tail(batch) = <<>> THEN "select" ELSE "enqueue"
    /\ UNCHANGED <<outbox, clock, ctxDone, ticks, pipeClosed, worker, pushLog,
                   outsidePublisher>>

\* Run, case <-ctx.Done(): close(messagePipe) and return.
RunStop ==
    /\ runPc = "select"
    /\ ctxDone
    /\ pipeClosed' = TRUE
    /\ runPc' = "stopped"
    /\ UNCHANGED <<outbox, clock, ctxDone, batch, ticks, messagePipe, worker,
                   pushLog, outsidePublisher>>

\* The parent context is cancelled.
Cancel ==
    /\ ~ctxDone
    /\ ctxDone' = TRUE
    /\ UNCHANGED <<outbox, clock, runPc, batch, ticks, messagePipe, pipeClosed,
                   worker, pushLog, outsidePublisher>>

\* worker, case msg, ok := <-messagePipe with ok = true.
WorkerRecv(w) ==
    /\ worker[w].pc = "recv"
    /\ messagePipe # <<>>
    /\ worker' = [worker EXCEPT ![w] = [pc |-> "push", msg |-> Head(messagePipe)]]
    /\ messagePipe' = Tail(messagePipe)
    /\ UNCHANGED <<outbox, clock, ctxDone, runPc, batch, ticks, pipeClosed,
                   pushLog, outsidePublisher>>

\* worker, case <-ctx.Done(), or the channel is closed and drained.
WorkerStop(w) ==
    /\ worker[w].pc = "recv"
    /\ ctxDone \/ (pipeClosed /\ messagePipe = <<>>)
    /\ worker' = [worker EXCEPT ![w].pc = "stopped"]
    /\ UNCHANGED <<outbox, clock, ctxDone, runPc, batch, ticks, messagePipe,
                   pipeClosed, pushLog, outsidePublisher>>

\* One PushMessage call as the log records it.
PushEntry(msg, ok) ==
    [id |-> msg.id, key |-> MarshalBinary(msg.id), topic |-> msg.topic,
     payload |-> msg.payload, ok |-> ok, afterSent |-> IsSent(msg.id)]

\* sendAndMark: PushMessage succeeds, UpdateAsSent is next.
PushOk(w) ==
    /\ worker[w].pc = "push"
    /\ pushLog' = pushLog \cup {PushEntry(worker[w].msg, TRUE)}
    /\ worker' = [worker EXCEPT ![w].pc = "mark"]
    /\ UNCHANGED <<outbox, clock, ctxDone, runPc, batch, ticks, messagePipe,
                   pipeClosed, outsidePublisher>>

\* sendAndMark going on to UpdateAsSent although PushMessage failed.
PushFailMarksSent(w) ==
    /\ worker[w].pc = "push"
    /\ pushLog' = pushLog \cup {PushEntry(worker[w].msg, FALSE)}
    /\ outbox' = UpdateAsSent(outbox, worker[w].msg.id, clock)
    /\ worker' = [worker EXCEPT ![w] = [pc |-> "recv", msg |-> NoMsg]]
    /\ UNCHANGED <<clock, ctxDone, runPc, batch, ticks, messagePipe,
                   pipeClosed, outsidePublisher>>

\* sendAndMark: PushMessage fails, the error is logged, the row stays unsent.
PushFail(w) ==
    /\ worker[w].pc = "push"
    /\ pushLog' = pushLog \cup {PushEntry(worker[w].msg, FALSE)}
    /\ worker' = [worker EXCEPT ![w] = [pc |-> "recv", msg |-> NoMsg]]
    /\ UNCHANGED <<outbox, clock, ctxDone, runPc, batch, ticks, messagePipe,
                   pipeClosed, outsidePublisher>>

\* sendAndMark: UpdateAsSent succeeds.
MarkOk(w) ==
    /\ worker[w].pc = "mark"
    /\ outbox' = UpdateAsSent(outbox, worker[w].msg.id, clock)
    /\ worker' = [worker EXCEPT ![w] = [pc |-> "recv", msg |-> NoMsg]]
    /\ UNCHANGED <<clock, ctxDone, runPc, batch, ticks, messagePipe,
                   pipeClosed, pushLog, outsidePublisher>>

\* sendAndMark: UpdateAsSent fails after a successful publish.
MarkFail(w) ==
    /\ worker[w].pc = "mark"
    /\ worker' = [worker EXCEPT ![w] = [pc |-> "recv", msg |-> NoMsg]]
    /\ UNCHANGED <<outbox, clock, ctxDone, runPc, batch, ticks, messagePipe,
                   pipeClosed, pushLog, outsidePublisher>>

\* The rows n committed nearest-region requests left in the tables.
RowIds == { <<i, 1>> : i \in 1..MaxRows }

CommittedRow(i, at) ==
    [id |-> <<i, 1>>, topic |-> Topic("EU"), payload |-> MarshalTask(i, "EU"),
     createdAt |-> at, sent |-> FALSE, sentAt |-> 0]

InitOutbox ==
    /\ agents = SeedAgents
    /\ \E n \in 1..MaxRows : \E at \in [1..n -> 1..2] :
         /\ outbox = { CommittedRow(i, at[i]) : i \in 1..n }
         /\ requests = { [id |-> i, broadcast |-> FALSE, clientIP |-> NilIP,
                          clientASN |-> 0, clientCC |-> "",
                          clientRegion |-> "EU",
                          requestJSON |-> MarshalTask(i, "EU"),
                          status |-> "PENDING"] : i \in 1..n }
         /\ assignments = { [id |-> <<i, 1>>, requestId |-> i,
                             agentId |-> "1832f867", agentRegion |-> "EU",
                             outboxId |-> <<i, 1>>, status |-> "PENDING"] :
                            i \in 1..n }
    /\ clock = 3
    /\ call = [c \in Calls |-> IdleCall]
    /\ lastBatch = <<>>
    /\ PublisherIdle
    /\ SubscriberIdle
    /\ AgentIdle
    /\ StreamIdle
    /\ ProbeIdle
    /\ LifeIdle

NextOutbox ==
    \/ Tick
    \/ TickFail
    \/ Enqueue
    \/ RunStop
    \/ Cancel
    \/ \E w \in Workers : WorkerRecv(w)
    \/ \E w \in Workers : WorkerStop(w)
    \/ \E w \in Workers : PushOk(w)
    \/ \E w \in Workers : PushFail(w)
    \/ \E w \in Workers : MarkOk(w)
    \/ \E w \in Workers : MarkFail(w)

SpecOutbox == InitOutbox /\ [][NextOutbox]_vars

\* The publisher while its context stays alive and the ticker keeps firing:
\* the ticker has no bound here, and a failed select is a step that changes
\* nothing.
TickLive == Poll /\ UNCHANGED ticks

PushOkRow(id) == \E w \in Workers : worker[w].msg.id = id /\ PushOk(w)

MarkOkRow(id) == \E w \in Workers : worker[w].msg.id = id /\ MarkOk(w)

NextOutboxLive ==
    \/ TickLive
    \/ Enqueue
    \/ \E w \in Workers : WorkerRecv(w)
    \/ \E w \in Workers : PushOk(w)
    \/ \E w \in Workers : PushFail(w)
    \/ \E w \in Workers : MarkOk(w)
    \/ \E w \in Workers : MarkFail(w)

\* Ticks keep firing, the goroutines keep running, and for every row a publish
\* and a mark-as-sent that are attempted again and again eventually succeed.
FairOutbox ==
    /\ WF_vars(TickLive)
    /\ WF_vars(Enqueue)
    /\ \A w \in Workers : WF_vars(WorkerRecv(w))
    /\ \A id \in RowIds : SF_vars(PushOkRow(id)) /\ SF_vars(MarkOkRow(id))

SpecOutboxLive == InitOutbox /\ [][NextOutboxLive]_vars /\ FairOutbox

\* ------------------------------------------------- inbox subscriber steps
outsideSubscriber ==
    <<dispatchVars, publisherVars, outbox, clock, agentVars, streamVars,
      probeVars, lifeVars>>

\* uuid.UUID.MarshalBinary on the producing side: 16 bytes carrying the id.
KeyOf(id) == [len |-> 16, id |-> id]

\* uuid.FromBytes: an error unless the key has 16 bytes.
FromBytes(key) ==
    IF key.len = 16 THEN [ok |-> TRUE, id |-> key.id]
    ELSE [ok |-> FALSE, id |-> 0]

\* json.Marshal of a ResultEnvelope.
MarshalResult(taskId, checkIndex, type, startedAt, ok) ==
    [fmt |-> "json", taskId |-> taskId, checkIndex |-> checkIndex,
     type |-> type, startedAt |-> startedAt, ok |-> ok]

\* json.Unmarshal into model.CheckResultFromAgent: an error unless the bytes
\* are JSON.
Unmarshal(value) ==
    IF value.fmt = "json"
    THEN [ok |-> TRUE, TaskID |-> value.taskId, Type |-> value.type,
          StartedAt |-> value.startedAt, OK |-> value.ok]
    ELSE [ok |-> FALSE, TaskID |-> 0, Type |-> "", StartedAt |-> 0,
          OK |-> FALSE]

\* StatusOf without the branch on OK: Status keeps its initial "DONE".
StatusOfAlwaysDone(ok) == "DONE"

\* process: the status written for an envelope.
StatusOf(ok) == IF ok THEN "DONE" ELSE "FAILED"

\* process: the model.CheckResult built from a decoded envelope, with a fresh
\* id, AssignmentId = TaskID, StartedAt from the envelope and the message's
\* bytes as Payload.
CheckResultOf(id, value) ==
    [id |-> id, assignmentId |-> Unmarshal(value).TaskID,
     type |-> Unmarshal(value).Type,
     status |-> StatusOf(Unmarshal(value).OK),
     startedAt |-> Unmarshal(value).StartedAt, payload |-> value]

\* INSERT INTO messages.inbox_messages with no ON CONFLICT clause: a second
\* row with the id of an existing one violates the primary key.
InsertInboxPlain(rows, visible, row) ==
    IF \E r \in rows \cup visible : r.id = row.id
    THEN [rows |-> rows, failed |-> TRUE]
    ELSE [rows |-> rows \cup {row}, failed |-> FALSE]

\* InboxRepository.InsertMessage: INSERT ... ON CONFLICT DO NOTHING on the
\* primary key id.
InsertInboxMessage(rows, visible, row) ==
    IF \E r \in rows \cup visible : r.id = row.id
    THEN [rows |-> rows, failed |-> FALSE]
    ELSE [rows |-> rows \cup {row}, failed |-> FALSE]

\* The messages a result topic can hold: the two results of a two-check
\* task, a message with a short key and a message that is not JSON.
MsgPool ==
    << [key |-> KeyOf(1), value |-> MarshalResult(1, 0, "http", 7, TRUE)],
       [key |-> KeyOf(1), value |-> MarshalResult(1, 1, "dns", 8, FALSE)],
       [key |-> [len |-> 3, id |-> 0],
        value |-> MarshalResult(1, 0, "http", 7, TRUE)],
       [key |-> KeyOf(1),
        value |-> [fmt |-> "raw", taskId |-> 0, checkIndex |-> 0,
                   type |-> "", startedAt |-> 0, ok |-> FALSE]] >>

\* The messages of the pool at the positions I, in the pool's order.
RECURSIVE Pick(_, _)
Pick(n, I) ==
    IF n = 0 THEN <<>>
    ELSE IF n \in I THEN Append(Pick(n - 1, I), MsgPool[n])
    ELSE Pick(n - 1, I)

\* Run: a message of the consumer group is forwarded into the channel. The
\* bus hands out an offset again after a rebalance or a restart.
SubDeliver(o) ==
    /\ o \in 1..Len(resultTopic)
    /\ delivered < MaxDeliveries
    /\ delivered' = delivered + 1
    /\ subPipe' = Append(subPipe,
                         [offset |-> o, key |-> resultTopic[o].key,
                          value |-> resultTopic[o].value])
    /\ UNCHANGED <<inboxTable, checkResults, resultTopic, acked, subWorker,
                   nextResultId, outsideSubscriber>>

\* worker: receive and parse the key; a key that is no uuid is logged and
\* the loop continues with the next message.
SubRecv(w) ==
    /\ subWorker[w].pc = "recv"
    /\ subPipe # <<>>
    /\ subPipe' = Tail(subPipe)
    /\ subWorker' =
         [subWorker EXCEPT ![w] =
            IF FromBytes(Head(subPipe).key).ok
            THEN [pc |-> "process", msg |-> Head(subPipe), tx |-> NoSubTx,
                  err |-> "none"]
            ELSE [pc |-> "recv", msg |-> NoDelivery, tx |-> NoSubTx,
                  err |-> "key"]]
    /\ UNCHANGED <<inboxTable, checkResults, resultTopic, delivered, acked,
                   nextResultId, outsideSubscriber>>

\* process up to Pool().Begin: decode the envelope and open the transaction;
\* an envelope that does not decode makes process return the error.
SubBegin(w) ==
    /\ subWorker[w].pc = "process"
    /\ subWorker' =
         [subWorker EXCEPT ![w].pc =
            IF Unmarshal(subWorker[w].msg.value).ok THEN "insertInbox"
            ELSE "mark",
          ![w].err =
            IF Unmarshal(subWorker[w].msg.value).ok THEN "none" ELSE "decode"]
    /\ UNCHANGED <<inboxTable, checkResults, resultTopic, delivered, subPipe,
                   acked, nextResultId, outsideSubscriber>>

\* Pool().Begin fails: process returns the error.
SubBeginFail(w) ==
    /\ subWorker[w].pc = "process"
    /\ Unmarshal(subWorker[w].msg.value).ok
    /\ subWorker' = [subWorker EXCEPT ![w].pc = "mark", ![w].err = "db"]
    /\ UNCHANGED <<inboxTable, checkResults, resultTopic, delivered, subPipe,
                   acked, nextResultId, outsideSubscriber>>

\* Another open transaction holds an uncommitted inbox row with this id: the
\* INSERT waits for it to end.
InboxLocked(w, id) ==
    \E v \in SubWorkers \ {w} : \E r \in subWorker[v].tx.inbox : r.id = id

\* inboxRepo.InsertMessage inside the transaction.
SubInsertInbox(w) ==
    /\ subWorker[w].pc = "insertInbox"
    /\ LET m == subWorker[w].msg
           id == FromBytes(m.key).id
           res == InsertInboxMessage(subWorker[w].tx.inbox, inboxTable,
                                     [id |-> id, payload |-> m.value])
       IN /\ ~InboxLocked(w, id)
          /\ subWorker' =
               [subWorker EXCEPT ![w] =
                  IF res.failed
                  THEN [@ EXCEPT !.pc = "mark", !.err = "conflict",
                                 !.tx = NoSubTx]
                  ELSE [@ EXCEPT !.pc = "insertResult",
                                 !.tx.inbox = res.rows]]
    /\ UNCHANGED <<inboxTable, checkResults, resultTopic, delivered, subPipe,
                   acked, nextResultId, outsideSubscriber>>

\* requestRepo.InsertCheckResult inside the transaction, with a fresh id.
SubInsertResult(w) ==
    /\ subWorker[w].pc = "insertResult"
    /\ subWorker' =
         [subWorker EXCEPT
            ![w].pc = "commit",
            ![w].tx.results =
                @ \cup {CheckResultOf(nextResultId, subWorker[w].msg.value)}]
    /\ nextResultId' = nextResultId + 1
    /\ UNCHANGED <<inboxTable, checkResults, resultTopic, delivered, subPipe,
                   acked, outsideSubscriber>>

\* A commit that also completes the assignments of the request.
SubCommitCompletes(w) ==
    /\ subWorker[w].pc = "commit"
    /\ inboxTable' = inboxTable \cup subWorker[w].tx.inbox
    /\ checkResults' = checkResults \cup subWorker[w].tx.results
    /\ subWorker' = [subWorker EXCEPT ![w].pc = "mark", ![w].tx = NoSubTx]
    /\ assignments' =
         { IF \E cr \in subWorker[w].tx.results :
                 cr.assignmentId = a.requestId
           THEN [a EXCEPT !.status = "DONE"] ELSE a : a \in assignments }
    /\ UNCHANGED <<resultTopic, delivered, subPipe, acked, nextResultId,
                   agents, requests, call, lastBatch, publisherVars, outbox,
                   clock, agentVars, streamVars, probeVars, lifeVars>>

\* tx.Commit: the inbox row and the CheckResult become visible together.
SubCommit(w) ==
    /\ subWorker[w].pc = "commit"
    /\ inboxTable' = inboxTable \cup subWorker[w].tx.inbox
    /\ checkResults' = checkResults \cup subWorker[w].tx.results
    /\ subWorker' = [subWorker EXCEPT ![w].pc = "mark", ![w].tx = NoSubTx]
    /\ UNCHANGED <<resultTopic, delivered, subPipe, acked, nextResultId,
                   outsideSubscriber>>

\* An insert or the commit fails: the deferred Rollback discards the
\* transaction and process returns the error.
SubDbError(w) ==
    /\ subWorker[w].pc \in {"insertInbox", "insertResult", "commit"}
    /\ subWorker' = [subWorker EXCEPT ![w].pc = "mark", ![w].err = "db",
                                      ![w].tx = NoSubTx]
    /\ UNCHANGED <<inboxTable, checkResults, resultTopic, delivered, subPipe,
                   acked, nextResultId, outsideSubscriber>>

\* worker: after process returned, with or without an error, msg.Mark().
SubMark(w) ==
    /\ subWorker[w].pc = "mark"
    /\ acked' = acked \cup {subWorker[w].msg.offset}
    /\ subWorker' = [subWorker EXCEPT ![w].pc = "recv"]
    /\ UNCHANGED <<inboxTable, checkResults, resultTopic, delivered, subPipe,
                   nextResultId, outsideSubscriber>>

InitInbox ==
    /\ agents = SeedAgents
    /\ requests = {} /\ assignments = {} /\ outbox = {}
    /\ clock = 1
    /\ call = [c \in Calls |-> IdleCall]
    /\ lastBatch = <<>>
    /\ PublisherIdle
    /\ inboxTable = {} /\ checkResults = {}
    /\ \E I \in SUBSET (1..Len(MsgPool)) :
         /\ Cardinality(I) \in 1..MaxMsgs
         /\ resultTopic = Pick(Len(MsgPool), I)
    /\ delivered = 0
    /\ subPipe = <<>> /\ acked = {}
    /\ subWorker = [w \in SubWorkers |->
                      [pc |-> "recv", msg |-> NoDelivery, tx |-> NoSubTx,
                       err |-> "none"]]
    /\ nextResultId = 1
    /\ AgentIdle
    /\ StreamIdle
    /\ ProbeIdle
    /\ LifeIdle

NextInbox ==
    \/ \E o \in 1..MaxMsgs : SubDeliver(o)
    \/ \E w \in SubWorkers : SubRecv(w)
    \/ \E w \in SubWorkers : SubBegin(w)
    \/ \E w \in SubWorkers : SubBeginFail(w)
    \/ \E w \in SubWorkers : SubInsertInbox(w)
    \/ \E w \in SubWorkers : SubInsertResult(w)
    \/ \E w \in SubWorkers : SubCommit(w)
    \/ \E w \in SubWorkers : SubDbError(w)
    \/ \E w \in SubWorkers : SubMark(w)

SpecInbox == InitInbox /\ [][NextInbox]_vars

\* ------------------------------------------------------------ agent steps
outsideAgent ==
    <<dispatchVars, publisherVars, subscriberVars, outbox, clock, streamVars,
      probeVars, lifeVars>>

CheckTypes == {"http", "dns", "smtp"}

\* normalizeCheckParams: the check types it accepts; any other type is an
\* "unsupported check type" error.
Supported(type) == type \in {"http", "ping", "tcp", "traceroute", "dns"}

\* ParseTask: an error as soon as one check fails to normalize.
ParseTask(task) ==
    \A i \in 1..Len(task.checks) : Supported(task.checks[i])

\* RunCheck: the overall timeout, 20 seconds when the task gives none.
OverallTimeout(task) ==
    IF task.timeoutSeconds <= 0 THEN 20 ELSE task.timeoutSeconds

CheckIds == 1..Len(agentTask.checks)

\* perCtx is derived from ctx: it is done when either deadline has expired.
PerCtxDone(i) == taskCtx.done \/ taskCtx.per[i]

\* process: ParseTask, then RunCheck starts one goroutine per check.
AgentProcess ==
    /\ agentPc = "process"
    /\ IF ParseTask(agentTask)
       THEN /\ agentPc' = "wait" /\ agentRun' = "running"
            /\ check' = [i \in 1..MaxChecks |->
                           IF i \in CheckIds
                           THEN [NoCheck EXCEPT !.pc = "select"]
                           ELSE NoCheck]
            /\ taskCtx' = [taskCtx EXCEPT
                             !.timeout = OverallTimeout(agentTask)]
       ELSE /\ agentPc' = "mark"
            /\ UNCHANGED <<agentRun, check, taskCtx>>
    /\ UNCHANGED <<agentTask, produced, outsideAgent>>

\* The deadline of the whole task expires.
TaskDeadline ==
    /\ agentRun = "running" /\ ~taskCtx.done
    /\ taskCtx' = [taskCtx EXCEPT !.done = TRUE]
    /\ UNCHANGED <<agentTask, agentPc, agentRun, check, produced,
                   outsideAgent>>

\* The deadline of one check (perCheckTimeout) expires.
CheckDeadline(i) ==
    /\ i \in CheckIds
    /\ check[i].pc \in {"select", "runOne", "publish"}
    /\ ~taskCtx.per[i]
    /\ taskCtx' = [taskCtx EXCEPT !.per[i] = TRUE]
    /\ UNCHANGED <<agentTask, agentPc, agentRun, check, produced,
                   outsideAgent>>

\* The goroutine's select on ctx.Done(): with the overall deadline gone it
\* builds a failure result without running the probe.
CheckSelect(i) ==
    /\ i \in CheckIds
    /\ check[i].pc = "select"
    /\ check' = [check EXCEPT ![i] =
                   IF taskCtx.done
                   THEN [pc |-> "publish", ok |-> FALSE, expired |-> TRUE]
                   ELSE [pc |-> "runOne", ok |-> FALSE, expired |-> FALSE]]
    /\ UNCHANGED <<agentTask, agentPc, agentRun, taskCtx, produced,
                   outsideAgent>>

\* runOne: the probe returns; it cannot succeed once perCtx is done.
RunOne(i) ==
    /\ i \in CheckIds
    /\ check[i].pc = "runOne"
    /\ \E ok \in BOOLEAN :
         /\ PerCtxDone(i) => ~ok
         /\ check' = [check EXCEPT ![i] =
                        [pc |-> "publish", ok |-> ok,
                         expired |-> PerCtxDone(i)]]
    /\ UNCHANGED <<agentTask, agentPc, agentRun, taskCtx, produced,
                   outsideAgent>>

\* publish: PushMessage accepted the envelope. These steps do not follow the
\* clock, and StartedAt stays 0.
PublishOk(i) ==
    /\ i \in CheckIds
    /\ check[i].pc = "publish"
    /\ produced' =
         Append(produced,
                [key |-> KeyOf(agentTask.id),
                 value |-> MarshalResult(agentTask.id, i - 1,
                                         agentTask.checks[i], 0,
                                         check[i].ok)])
    /\ check' = [check EXCEPT ![i].pc = "end"]
    /\ UNCHANGED <<agentTask, agentPc, agentRun, taskCtx, outsideAgent>>

\* publish: PushMessage returned an error, which is logged.
PublishFail(i) ==
    /\ i \in CheckIds
    /\ check[i].pc = "publish"
    /\ check' = [check EXCEPT ![i].pc = "end"]
    /\ UNCHANGED <<agentTask, agentPc, agentRun, taskCtx, produced,
                   outsideAgent>>

\* wg.Wait() returns and RunCheck returns nil.
AgentReturn ==
    /\ agentPc = "wait"
    /\ \A i \in CheckIds : check[i].pc = "end"
    /\ agentPc' = "mark" /\ agentRun' = "returned"
    /\ UNCHANGED <<agentTask, check, taskCtx, produced, outsideAgent>>

\* worker: msg.Mark() after process returned.
AgentMark ==
    /\ agentPc = "mark"
    /\ agentPc' = "idle"
    /\ UNCHANGED <<agentTask, agentRun, check, taskCtx, produced,
                   outsideAgent>>

RECURSIVE Seqs(_, _)
Seqs(S, n) ==
    IF n = 0 THEN {<<>>}
    ELSE { Append(q, x) : q \in Seqs(S, n - 1), x \in S }

InitAgent ==
    /\ agents = SeedAgents
    /\ requests = {} /\ assignments = {} /\ outbox = {}
    /\ clock = 1
    /\ call = [c \in Calls |-> IdleCall]
    /\ lastBatch = <<>>
    /\ PublisherIdle
    /\ SubscriberIdle
    /\ StreamIdle
    /\ ProbeIdle
    /\ LifeIdle
    /\ \E n \in 1..MaxChecks : \E cs \in Seqs(CheckTypes, n) :
       \E t \in {0, 5} :
         agentTask = [id |-> 1, checks |-> cs, timeoutSeconds |-> t]
    /\ agentPc = "process" /\ agentRun = "no"
    /\ check = [i \in 1..MaxChecks |-> NoCheck]
    /\ taskCtx = [done |-> FALSE, per |-> [i \in 1..MaxChecks |-> FALSE],
                  timeout |-> 0]
    /\ produced = <<>>

NextAgent ==
    \/ AgentProcess
    \/ TaskDeadline
    \/ \E i \in 1..MaxChecks : CheckDeadline(i)
    \/ \E i \in 1..MaxChecks : CheckSelect(i)
    \/ \E i \in 1..MaxChecks : RunOne(i)
    \/ \E i \in 1..MaxChecks : PublishOk(i)
    \/ \E i \in 1..MaxChecks : PublishFail(i)
    \/ AgentReturn
    \/ AgentMark

SpecAgent == InitAgent /\ [][NextAgent]_vars

\* ------------------------------------------------- result stream (websocket)
outsideStream ==
    <<dispatchVars, publisherVars, outbox, clock, agentVars, resultTopic,
      delivered, subPipe, acked, subWorker, probeVars, lifeVars>>

\* The request the stream model follows, and the request_id path parameters
\* a client can send.
StreamRequest == 1
RequestIdParams == {"1", "zz"}

\* uuid.Parse of the request_id parameter.
ParseRequestId(param) ==
    IF param = "1" THEN [ok |-> TRUE, id |-> StreamRequest]
    ELSE [ok |-> FALSE, id |-> 0]

\* The order of agents.id values, as ORDER BY a.agent_id compares them.
AgentRank(id) ==
    IF id = "1832f867" THEN 1 ELSE IF id = "6d40a8b9" THEN 2 ELSE 3

\* One row of SelectResultsByRequestID's result.
ResultItem(a, c) ==
    [requestId |-> a.requestId, agentId |-> a.agentId,
     agentRegion |-> a.agentRegion, type |-> c.type, status |-> c.status,
     payload |-> c.payload]

\* SelectResultsByRequestID: assignments JOIN check_results ON a.request_id =
\* c.assignment_id WHERE a.request_id = $1 ORDER BY a.agent_id; the possible
\* result lists (rows of one agent come in any order).
SelectResultsByRequestID(requestId) ==
    LET joined == { <<a, c>> \in assignments \X checkResults :
                      a.requestId = requestId /\ c.assignmentId = a.requestId }
        sorted == { o \in Orderings(joined) :
                      \A i \in 1..Len(o) - 1 :
                          AgentRank(o[i][1].agentId)
                              <= AgentRank(o[i + 1][1].agentId) }
    IN { [i \in 1..Len(o) |-> ResultItem(o[i][1], o[i][2])] : o \in sorted }

\* json.Marshal of the list, and the hex sha256 of those bytes.
MarshalList(list) == <<"json", list>>
Hash(raw) == <<"sha256", raw>>

\* allTerminal: a non-empty list whose every status is one of the four.
allTerminal(list) ==
    /\ Len(list) # 0
    /\ \A i \in 1..Len(list) :
         list[i].status \in {"SUCCESS", "FAILED", "TIMEOUT", "CANCELLED"}

\* A wsMessage as written to the socket.
Frame(type, list) ==
    [type |-> type, hasData |-> TRUE, data |-> list, err |-> ""]
ErrorFrame(text) ==
    [type |-> "error", hasData |-> FALSE, data |-> <<>>, err |-> text]
BareDone == [type |-> "done", hasData |-> FALSE, data |-> <<>>, err |-> ""]

\* Subscriber.process for one more envelope of the followed request, from
\* decode to Commit: the inbox row (ON CONFLICT DO NOTHING) and a CheckResult.
Ingest(ok) ==
    /\ Cardinality(checkResults) < MaxResults
    /\ LET idx == Cardinality(checkResults)
           value == MarshalResult(StreamRequest, idx,
                                  IF idx = 0 THEN "http" ELSE "dns",
                                  idx + 1, ok)
           row == [id |-> FromBytes(KeyOf(StreamRequest)).id,
                   payload |-> value]
       IN /\ inboxTable' =
               inboxTable \cup InsertInboxMessage({}, inboxTable, row).rows
          /\ checkResults' =
               checkResults \cup {CheckResultOf(nextResultId, value)}
    /\ nextResultId' = nextResultId + 1
    /\ UNCHANGED <<streamVars, outsideStream>>

\* StreamResults up to the loop: an invalid request_id is answered with an
\* error frame and the handler returns.
StreamOpen(param) ==
    /\ streamPc = "open"
    /\ IF ParseRequestId(param).ok
       THEN /\ streamPc' = "loop"
            /\ streamId' = ParseRequestId(param).id
            /\ UNCHANGED frames
       ELSE /\ streamPc' = "invalid"
            /\ frames' = Append(frames, ErrorFrame("invalid request_id"))
            /\ UNCHANGED streamId
    /\ UNCHANGED <<lastHash, inboxTable, checkResults, nextResultId,
                   outsideStream>>

\* The request's context is cancelled while the handler is in its loop.
StreamCancel ==
    /\ streamPc = "loop"
    /\ streamPc' = "ctxDone"
    /\ UNCHANGED <<streamId, frames, lastHash, inboxTable, checkResults,
                   nextResultId, outsideStream>>

\* case <-ctx.Done() returning without writing the done frame.
StreamCtxDoneSilent ==
    /\ streamPc = "ctxDone"
    /\ streamPc' = "cancelled"
    /\ UNCHANGED <<streamId, frames, lastHash, inboxTable, checkResults,
                   nextResultId, outsideStream>>

\* case <-ctx.Done(): a done frame without data, then return.
StreamCtxDone ==
    /\ streamPc = "ctxDone"
    /\ frames' = Append(frames, BareDone)
    /\ streamPc' = "cancelled"
    /\ UNCHANGED <<streamId, lastHash, inboxTable, checkResults,
                   nextResultId, outsideStream>>

\* The failing-query tick returning after its error frame.
StreamTickErrCloses(ok) ==
    /\ streamPc \in {"loop", "ctxDone"}
    /\ Len(frames) < MaxFrames
    /\ streamPc' = "broken"
    /\ frames' = IF ok
                 THEN Append(frames, ErrorFrame("failed to select results"))
                 ELSE frames
    /\ UNCHANGED <<streamId, lastHash, inboxTable, checkResults,
                   nextResultId, outsideStream>>

\* case <-ticker.C with a failing query: an error frame, and the loop goes on
\* unless the write fails. Once ctx is cancelled the query of every tick the
\* select still takes fails.
StreamTickErr(ok) ==
    /\ streamPc \in {"loop", "ctxDone"}
    /\ Len(frames) < MaxFrames
    /\ IF ok
       THEN /\ frames' = Append(frames, ErrorFrame("failed to select results"))
            /\ UNCHANGED streamPc
       ELSE /\ streamPc' = "broken"
            /\ UNCHANGED frames
    /\ UNCHANGED <<streamId, lastHash, inboxTable, checkResults,
                   nextResultId, outsideStream>>

\* The tick with the hash comparison left out: every later tick sends an
\* update.
StreamTickAlways(list, ok) ==
    /\ streamPc = "loop"
    /\ Len(frames) < MaxFrames
    /\ list \in SelectResultsByRequestID(streamId)
    /\ LET newHash == Hash(MarshalList(list))
           kind == IF lastHash = NoHash THEN "snapshot" ELSE "update"
           sent == Append(frames, Frame(kind, list))
       IN IF ~ok
          THEN /\ streamPc' = "broken"
               /\ UNCHANGED <<frames, lastHash>>
          ELSE /\ lastHash' = newHash
               /\ IF allTerminal(list)
                  THEN /\ frames' = Append(sent, Frame("done", list))
                       /\ streamPc' = "done"
                  ELSE /\ frames' = sent
                       /\ UNCHANGED streamPc
    /\ UNCHANGED <<streamId, inboxTable, checkResults, nextResultId,
                   outsideStream>>

\* The tick with the return after the done frame left out.
StreamTickNoReturn(list, ok) ==
    /\ streamPc = "loop"
    /\ Len(frames) < MaxFrames
    /\ list \in SelectResultsByRequestID(streamId)
    /\ LET newHash == Hash(MarshalList(list))
           kind == IF lastHash = NoHash THEN "snapshot"
                   ELSE IF newHash # lastHash THEN "update"
                   ELSE "none"
           sent == IF kind = "none" THEN frames
                   ELSE Append(frames, Frame(kind, list))
       IN /\ kind = "none" => ok
          /\ IF ~ok
             THEN /\ streamPc' = "broken"
                  /\ UNCHANGED <<frames, lastHash>>
             ELSE /\ lastHash' = IF kind = "none" THEN lastHash ELSE newHash
                  /\ frames' = IF allTerminal(list)
                               THEN Append(sent, Frame("done", list))
                               ELSE sent
                  /\ UNCHANGED streamPc
    /\ UNCHANGED <<streamId, inboxTable, checkResults, nextResultId,
                   outsideStream>>

\* case <-ticker.C with the query returning list: snapshot on the first
\* list, update when the hash changed (ok: the write succeeded), then the done
\* frame and return when allTerminal.
StreamTick(list, ok) ==
    /\ streamPc = "loop"
    /\ Len(frames) < MaxFrames
    /\ list \in SelectResultsByRequestID(streamId)
    /\ LET newHash == Hash(MarshalList(list))
           kind == IF lastHash = NoHash THEN "snapshot"
                   ELSE IF newHash # lastHash THEN "update"
                   ELSE "none"
           sent == IF kind = "none" THEN frames
                   ELSE Append(frames, Frame(kind, list))
       IN /\ kind = "none" => ok
          /\ IF ~ok
             THEN /\ streamPc' = "broken"
                  /\ UNCHANGED <<frames, lastHash>>
             ELSE /\ lastHash' = IF kind = "none" THEN lastHash ELSE newHash
                  /\ IF allTerminal(list)
                     THEN /\ frames' = Append(sent, Frame("done", list))
                          /\ streamPc' = "done"
                     ELSE /\ frames' = sent
                          /\ UNCHANGED streamPc
    /\ UNCHANGED <<streamId, inboxTable, checkResults, nextResultId,
                   outsideStream>>

\* One nearest-region request, dispatched and published, with no result yet.
InitStream ==
    /\ agents = SeedAgents
    /\ requests = { [id |-> StreamRequest, broadcast |-> FALSE,
                     clientIP |-> NilIP, clientASN |-> 0, clientCC |-> "",
                     clientRegion |-> "EU",
                     requestJSON |-> MarshalTask(StreamRequest, "EU"),
                     status |-> "PENDING"] }
    /\ assignments = { [id |-> <<StreamRequest, 1>>,
                        requestId |-> StreamRequest,
                        agentId |-> "1832f867", agentRegion |-> "EU",
                        outboxId |-> <<StreamRequest, 1>>,
                        status |-> "PENDING"] }
    /\ outbox = { [CommittedRow(StreamRequest, 1) EXCEPT
                     !.sent = TRUE, !.sentAt = 2] }
    /\ clock = 3
    /\ call = [c \in Calls |-> IdleCall]
    /\ lastBatch = <<>>
    /\ PublisherIdle
    /\ SubscriberIdle
    /\ AgentIdle
    /\ StreamIdle
    /\ ProbeIdle
    /\ LifeIdle

NextStream ==
    \/ \E ok \in BOOLEAN : Ingest(ok)
    \/ \E param \in RequestIdParams : StreamOpen(param)
    \/ StreamCancel
    \/ StreamCtxDone
    \/ \E ok \in BOOLEAN : StreamTickErr(ok)
    \/ \E list \in SelectResultsByRequestID(streamId), ok \in BOOLEAN :
         StreamTick(list, ok)

SpecStream == InitStream /\ [][NextStream]_vars

\* The select takes a case that stays ready: with ctx cancelled it
\* eventually takes case <-ctx.Done().
SpecStreamLive == InitStream /\ [][NextStream]_vars /\ WF_vars(StreamCtxDone)

\* ------------------------------------------- from the agent to the results
\* Subscriber.Run over the result topic the agent produces to: the next
\* message of the topic is consumed, once and in order, and forwarded into
\* the channel.
SubConsume ==
    /\ delivered < Len(produced)
    /\ delivered < MaxDeliveries
    /\ delivered' = delivered + 1
    /\ resultTopic' = Append(resultTopic, produced[delivered + 1])
    /\ subPipe' = Append(subPipe,
                         [offset |-> delivered + 1,
                          key |-> produced[delivered + 1].key,
                          value |-> produced[delivered + 1].value])
    /\ UNCHANGED <<inboxTable, checkResults, acked, subWorker, nextResultId,
                   outsideSubscriber>>

\* The request of InitStream after its task reached the agent of its region:
\* the agent worker holds the task, with zero or more http checks.
InitDelivery ==
    /\ agents = SeedAgents
    /\ requests = { [id |-> StreamRequest, broadcast |-> FALSE,
                     clientIP |-> NilIP, clientASN |-> 0, clientCC |-> "",
                     clientRegion |-> "EU",
                     requestJSON |-> MarshalTask(StreamRequest, "EU"),
                     status |-> "PENDING"] }
    /\ assignments = { [id |-> <<StreamRequest, 1>>,
                        requestId |-> StreamRequest,
                        agentId |-> "1832f867", agentRegion |-> "EU",
                        outboxId |-> <<StreamRequest, 1>>,
                        status |-> "PENDING"] }
    /\ outbox = { [CommittedRow(StreamRequest, 1) EXCEPT
                     !.sent = TRUE, !.sentAt = 2] }
    /\ clock = 3
    /\ call = [c \in Calls |-> IdleCall]
    /\ lastBatch = <<>>
    /\ PublisherIdle
    /\ SubscriberIdle
    /\ StreamIdle
    /\ ProbeIdle
    /\ LifeIdle
    /\ \E n \in 0..MaxChecks : \E t \in {0, 5} :
         agentTask = [id |-> TaskIdOf(MarshalTask(StreamRequest, "EU")),
                      checks |-> [i \in 1..n |-> "http"],
                      timeoutSeconds |-> t]
    /\ agentPc = "process" /\ agentRun = "no"
    /\ check = [i \in 1..MaxChecks |-> NoCheck]
    /\ taskCtx = [done |-> FALSE, per |-> [i \in 1..MaxChecks |-> FALSE],
                  timeout |-> 0]
    /\ produced = <<>>

NextDelivery ==
    \/ AgentProcess
    \/ \E i \in 1..MaxChecks : CheckSelect(i)
    \/ \E i \in 1..MaxChecks : RunOne(i)
    \/ \E i \in 1..MaxChecks : PublishOk(i)
    \/ \E i \in 1..MaxChecks : PublishFail(i)
    \/ AgentReturn
    \/ AgentMark
    \/ SubConsume
    \/ \E w \in SubWorkers : SubRecv(w)
    \/ \E w \in SubWorkers : SubBegin(w)
    \/ \E w \in SubWorkers : SubBeginFail(w)
    \/ \E w \in SubWorkers : SubInsertInbox(w)
    \/ \E w \in SubWorkers : SubInsertResult(w)
    \/ \E w \in SubWorkers : SubCommit(w)
    \/ \E w \in SubWorkers : SubDbError(w)
    \/ \E w \in SubWorkers : SubMark(w)

\* Every goroutine keeps running, and a publish and a commit that stay
\* possible eventually succeed.
FairDelivery ==
    /\ WF_vars(NextDelivery)
    /\ \A i \in 1..MaxChecks : SF_vars(PublishOk(i))
    /\ \A w \in SubWorkers : SF_vars(SubCommit(w))

SpecDelivery == InitDelivery /\ [][NextDelivery]_vars /\ FairDelivery

\* ------------------------------------------------- check normalization
outsideProbe ==
    <<dispatchVars, publisherVars, subscriberVars, outbox, clock, agentVars,
      streamVars, lifeVars>>

Digits == <<"0", "1", "2", "3", "4", "5", "6", "7", "8", "9">>

\* strconv.Itoa: the decimal text of an integer, as a sequence of characters.
RECURSIVE Itoa(_)
Itoa(n) ==
    IF n < 0 THEN <<"-">> \o Itoa(0 - n)
    ELSE IF n < 10 THEN <<Digits[n + 1]>>
    ELSE Itoa(n \div 10) \o <<Digits[(n % 10) + 1]>>

\* strconv.Atoi: an optional sign, then one or more digits; anything else is
\* an error.
Atoi(s) ==
    LET signed == s # <<>> /\ Head(s) \in {"-", "+"}
        body == IF signed THEN Tail(s) ELSE s
        IsDigit(c) == \E d \in 1..10 : Digits[d] = c
        DigitVal(c) == (CHOOSE d \in 1..10 : Digits[d] = c) - 1
        RECURSIVE Val(_)
        Val(q) == IF q = <<>> THEN 0
                  ELSE 10 * Val(SubSeq(q, 1, Len(q) - 1))
                       + DigitVal(q[Len(q)])
    IN  IF body = <<>> \/ \E i \in 1..Len(body) : ~IsDigit(body[i])
        THEN [err |-> TRUE, n |-> 0]
        ELSE [err |-> FALSE,
              n |-> IF signed /\ Head(s) = "-" THEN 0 - Val(body)
                    ELSE Val(body)]

\* parseRange2Int: trim, drop one "[" and one "]", split at ",", two parts,
\* each an integer after trimming.
parseRange2Int(str) ==
    LET TrimSpace(s) ==
            LET I == {i \in 1..Len(s) : s[i] # " "}
            IN  IF I = {} THEN <<>>
                ELSE SubSeq(s, CHOOSE i \in I : \A j \in I : i <= j,
                               CHOOSE i \in I : \A j \in I : j <= i)
        s1 == TrimSpace(str)
        s2 == IF s1 # <<>> /\ Head(s1) = "[" THEN Tail(s1) ELSE s1
        s3 == IF s2 # <<>> /\ s2[Len(s2)] = "]"
              THEN SubSeq(s2, 1, Len(s2) - 1) ELSE s2
        commas == {i \in 1..Len(s3) : s3[i] = ","}
        c == CHOOSE i \in commas : TRUE
        a == Atoi(TrimSpace(SubSeq(s3, 1, c - 1)))
        b == Atoi(TrimSpace(SubSeq(s3, c + 1, Len(s3))))
    IN  IF Cardinality(commas) # 1 \/ a.err \/ b.err
        THEN [err |-> TRUE, r |-> <<0, 0>>]
        ELSE [err |-> FALSE, r |-> <<a.n, b.n>>]

\* toInt: a JSON number is converted, every other value gives 0.
toInt(v) == IF v.k = "num" THEN v.n ELSE 0

\* strings.ToLower on the check types the model sends.
ToLower(type) ==
    CASE type = "HTTP" -> "http"
      [] type = "Dns" -> "dns"
      [] OTHER -> type

\* decodeLoose: json.Marshal of the map, json.Unmarshal into the kind's
\* struct. A key the struct does not have is ignored and a missing key leaves
\* the zero value; an int field takes a JSON number and fails on any other
\* value, the [2]int field takes an array of numbers, Records an array of
\* strings.
decodeLoose(kind, m) ==
    LET Fields ==
            CASE kind = "http" -> {"expectedStatusRange", "maxBodyBytes"}
              [] kind = "ping" -> {"count", "intervalMs"}
              [] kind = "tcp" -> {"port", "connectTimeoutMs"}
              [] kind = "traceroute" -> {"port", "maxHops"}
              [] kind = "dns" -> {"records"}
              [] OTHER -> {}
        IntBad(f) == f \in Fields /\ m[f].k \notin {"absent", "num"}
        IntOf(f) == IF f \in Fields /\ m[f].k = "num" THEN m[f].n ELSE 0
        rg == m["expectedStatusRange"]
        RangeBad ==
            /\ "expectedStatusRange" \in Fields
            /\ \/ rg.k \notin {"absent", "arr"}
               \/ \E i \in 1..Len(rg.a) : rg.a[i].k # "num"
        El(i) == IF i <= Len(rg.a) THEN rg.a[i].n ELSE 0
        rc == m["records"]
        RecBad ==
            /\ "records" \in Fields
            /\ \/ rc.k \notin {"absent", "arr"}
               \/ \E i \in 1..Len(rc.a) : rc.a[i].k # "str"
    IN  IF \/ \E f \in ParamNames \ {"expectedStatusRange", "records"} :
                 IntBad(f)
           \/ RangeBad \/ RecBad
        THEN [err |-> TRUE, p |-> ZeroParams]
        ELSE [err |-> FALSE,
              p |-> [expectedStatusRange |->
                         IF "expectedStatusRange" \in Fields
                            /\ rg.k = "arr"
                         THEN <<El(1), El(2)>> ELSE <<0, 0>>,
                     maxBodyBytes |-> IntOf("maxBodyBytes"),
                     count |-> IntOf("count"),
                     intervalMs |-> IntOf("intervalMs"),
                     port |-> IntOf("port"),
                     connectTimeoutMs |-> IntOf("connectTimeoutMs"),
                     maxHops |-> IntOf("maxHops"),
                     records |->
                         IF "records" \in Fields /\ rc.k = "arr"
                         THEN [i \in 1..Len(rc.a) |-> rc.a[i].s]
                         ELSE <<>>]]

\* normalizeCheckParams: the kind-specific rewriting of Params and the
\* defaults; err when the check is rejected.
normalizeCheckParams(type, m) ==
    LET kind == ToLower(type)
        v == m["expectedStatusRange"]
        parsed == parseRange2Int(v.s)
        Pair(a, b) == JArr(<<JNum(a), JNum(b)>>)
        rangeErr ==
            \/ v.k = "str" /\ parsed.err
            \/ v.k = "arr" /\ Len(v.a) # 2
        m1 == [m EXCEPT !["expectedStatusRange"] =
                 CASE v.k = "absent" -> Pair(200, 299)
                   [] v.k = "str" -> Pair(parsed.r[1], parsed.r[2])
                   [] v.k = "arr" /\ Len(v.a) = 2 ->
                        Pair(toInt(v.a[1]), toInt(v.a[2]))
                   [] OTHER -> v]
        d == decodeLoose(kind, IF kind = "http" THEN m1 ELSE m)
        p == d.p
    IN  CASE kind = "http" ->
               IF rangeErr \/ d.err THEN [err |-> TRUE, p |-> ZeroParams]
               ELSE [err |-> FALSE,
                     p |-> [p EXCEPT !.expectedStatusRange =
                              IF @ = <<0, 0>> THEN <<200, 299>> ELSE @]]
          [] kind = "ping" ->
               IF d.err THEN [err |-> TRUE, p |-> ZeroParams]
               ELSE [err |-> FALSE,
                     p |-> [p EXCEPT
                              !.count = IF @ <= 0 THEN 4 ELSE @,
                              !.intervalMs = IF @ <= 0 THEN 1000 ELSE @]]
          [] kind = "tcp" ->
               IF d.err THEN [err |-> TRUE, p |-> ZeroParams]
               ELSE [err |-> FALSE,
                     p |-> [p EXCEPT
                              !.connectTimeoutMs =
                                  IF @ <= 0 THEN 3000 ELSE @]]
          [] kind = "traceroute" ->
               IF d.err THEN [err |-> TRUE, p |-> ZeroParams]
               ELSE [err |-> FALSE,
                     p |-> [p EXCEPT !.maxHops = IF @ <= 0 THEN 30 ELSE @]]
          [] kind = "dns" ->
               IF d.err THEN [err |-> TRUE, p |-> ZeroParams]
               ELSE [err |-> FALSE,
                     p |-> [p EXCEPT !.records =
                              IF @ = <<>> THEN << <<"A">> >> ELSE @]]
          [] OTHER -> [err |-> TRUE, p |-> ZeroParams]

\* perCheckTimeout, in seconds.
perCheckTimeout(typ) ==
    CASE ToLower(typ) = "http" -> 5
      [] ToLower(typ) = "tcp" -> 3
      [] ToLower(typ) = "ping" -> 6
      [] ToLower(typ) = "dns" -> 4
      [] ToLower(typ) = "traceroute" -> 16
      [] OTHER -> 5

\* makeResTemplate: err is the error's text, "" for a nil error. Error is
\* set only for a non-nil error, and Payload holds the bytes of a non-nil
\* payload.
makeResTemplate(typ, ok, err, payload) ==
    [type |-> ToLower(typ), ok |-> ok, error |-> err,
     payload |-> IF payload.set THEN payload ELSE NilPayload]

\* What the network or the tool answers to a probe: the request could not
\* be built ("bad"), the exchange failed ("err"), or it went through with a
\* status code (http); for dns, the set of records whose lookup failed.
ProbeOutcomes(p) ==
    { [io |-> io, status |-> st, failed |-> F] :
        io \in {"bad", "err", "done"}, st \in {200, 404},
        F \in SUBSET (1..Len(p.records)) }

\* runHTTP.
runHTTP(typ, p, o) ==
    CASE o.io = "bad" -> makeResTemplate(typ, FALSE, "bad request", NilPayload)
      [] o.io = "err" -> makeResTemplate(typ, FALSE, "Get: failed", Payload({"url"}, 0))
      [] OTHER ->
           makeResTemplate(typ,
               /\ o.status >= p.expectedStatusRange[1]
               /\ o.status <= p.expectedStatusRange[2],
               "",
               Payload({"url", "status", "latencyMs", "finalURL",
                        "limitBytes"}, o.status))

\* runDNS: one lookup per record, "A", "AAAA" and "MX" are the record types
\* it knows; ok when no record had an error, and the error stays nil.
runDNS(typ, p, o) ==
    LET Known(rr) == rr \in {<<"A">>, <<"A", "A", "A", "A">>, <<"M", "X">>}
        Bad(i) == ~Known(p.records[i]) \/ i \in o.failed
        haveError == \E i \in 1..Len(p.records) : Bad(i)
    IN  makeResTemplate(typ, ~haveError, "",
            Payload({ <<p.records[i], IF Bad(i) THEN "_error" ELSE "">> :
                        i \in 1..Len(p.records) }, 0))

\* runOne: the probe of the check's kind; runTCP, runPing and runTraceroute
\* fail with the error of the dial or of the command and a payload, and
\* succeed with a payload.
runOne(typ, p, o) ==
    LET kind == ToLower(typ)
        keys == CASE kind = "tcp" ->
                       IF o.io = "done" THEN {"addr", "handshake"}
                       ELSE {"addr"}
                  [] kind = "ping" -> {"command", "output", "exitCode"}
                  [] OTHER -> {"command", "output", "exitCode", "hops"}
    IN  CASE kind = "http" -> runHTTP(typ, p, o)
          [] kind = "dns" -> runDNS(typ, p, o)
          [] kind \in {"tcp", "ping", "traceroute"} ->
               IF o.io = "done"
               THEN makeResTemplate(typ, TRUE, "", Payload(keys, 0))
               ELSE makeResTemplate(typ, FALSE, "failed", Payload(keys, 0))
          [] OTHER ->
               makeResTemplate(typ, FALSE, "unsupported check type",
                               NilPayload)

\* ------------------------------------------------------- one check, steps
\* The checks the model sends: every kind with no params, each numeric
\* field as a JSON number and as the string of the same number, the status
\* range as a string, as an array of numbers and as an array of strings, and
\* dns record lists.
CheckInputs ==
    LET P0 == [f \in ParamNames |-> Absent]
        With(f, v) == [P0 EXCEPT ![f] = v]
        Num(f, n) == {With(f, JNum(n)), With(f, JStr(Itoa(n)))}
        RangeText(a, b) == <<"[">> \o Itoa(a) \o <<",">> \o Itoa(b) \o <<"]">>
        Range(a, b) ==
            { With("expectedStatusRange", v) :
                v \in {JStr(RangeText(a, b)),
                       JStr(<<" ">> \o RangeText(a, b) \o <<" ">>),
                       JArr(<<JNum(a), JNum(b)>>),
                       JArr(<<JStr(Itoa(a)), JStr(Itoa(b))>>)} }
        Records(r) == With("records", JArr([i \in 1..Len(r) |-> JStr(r[i])]))
        Of(type, S) == { [type |-> type, params |-> p] : p \in S }
    IN  Of("http", {P0, With("expectedStatusRange", JStr(Itoa(200)))}
                   \cup Num("maxBodyBytes", 7)
                   \cup Range(200, 204) \cup Range(404, 404)
                   \cup Range(0, 0))
        \cup Of("tcp", {P0} \cup Num("port", 443)
                       \cup Num("connectTimeoutMs", 500))
        \cup Of("ping", {P0} \cup Num("count", 3) \cup Num("intervalMs", 200))
        \cup Of("traceroute", {P0} \cup Num("port", 443) \cup Num("maxHops", 5))
        \cup Of("dns", {P0, Records(<< <<"A">> >>),
                        Records(<< <<"M", "X">>, <<"T", "X", "T">> >>)})
        \cup Of("HTTP", {P0}) \cup Of("Dns", {P0}) \cup Of("smtp", {P0})

\* perCtx and ctx of RunCheck are done once their deadline has passed.
CtxDone == probe.now >= probe.deadline
PerDone == probe.now >= probe.perDeadline

\* process: ParseTask, then RunCheck derives ctx from context.Background()
\* with the overall timeout.
ProbeProcess ==
    /\ probe.pc = "process"
    /\ LET n == normalizeCheckParams(probe.type, probe.params)
       IN  probe' =
             IF n.err THEN [probe EXCEPT !.pc = "rejected"]
             ELSE [probe EXCEPT !.pc = "start", !.norm = n.p,
                                !.deadline = probe.now + OverallTimeout(probe)]
    /\ UNCHANGED outsideProbe

\* ProbeStart with perCtx derived from context.Background() instead of ctx.
ProbeStartUnclipped ==
    /\ probe.pc = "start"
    /\ probe' =
         [probe EXCEPT
            !.startedAt = probe.now,
            !.perDeadline = probe.now + perCheckTimeout(probe.type),
            !.pc = IF CtxDone THEN "done" ELSE "runOne",
            !.res = IF CtxDone
                    THEN makeResTemplate(probe.type, FALSE,
                             "context deadline exceeded", NilPayload)
                    ELSE NoResult]
    /\ UNCHANGED outsideProbe

\* The goroutine of the check: perCtx from ctx with perCheckTimeout, which
\* takes the earlier of the two deadlines; then the select on ctx.Done().
ProbeStart ==
    /\ probe.pc = "start"
    /\ probe' =
         [probe EXCEPT
            !.startedAt = probe.now,
            !.perDeadline =
                Min(probe.deadline, probe.now + perCheckTimeout(probe.type)),
            !.pc = IF CtxDone THEN "done" ELSE "runOne",
            !.res = IF CtxDone
                    THEN makeResTemplate(probe.type, FALSE,
                             "context deadline exceeded", NilPayload)
                    ELSE NoResult]
    /\ UNCHANGED outsideProbe

\* runOne returns. With perCtx done the exchange, the command and every
\* lookup fail.
ProbeRunOne ==
    /\ probe.pc = "runOne"
    /\ \E o \in ProbeOutcomes(probe.norm) :
         /\ PerDone => /\ o.io # "done"
                       /\ o.failed = 1..Len(probe.norm.records)
         /\ probe' = [probe EXCEPT
                        !.pc = "done",
                        !.res = runOne(probe.type, probe.norm, o)]
    /\ UNCHANGED outsideProbe

\* A second passes while the check waits to start or runs.
ProbeTick ==
    /\ probe.pc \in {"start", "runOne"}
    /\ probe.now < MaxClock
    /\ probe' = [probe EXCEPT !.now = probe.now + 1]
    /\ UNCHANGED outsideProbe

\* The context given to Service.Run is cancelled.
ProbeCancel ==
    /\ ~probe.parentDone
    /\ probe' = [probe EXCEPT !.parentDone = TRUE]
    /\ UNCHANGED outsideProbe

InitProbe ==
    /\ agents = SeedAgents
    /\ requests = {} /\ assignments = {} /\ outbox = {}
    /\ clock = 1
    /\ call = [c \in Calls |-> IdleCall]
    /\ lastBatch = <<>>
    /\ PublisherIdle
    /\ SubscriberIdle
    /\ AgentIdle
    /\ StreamIdle
    /\ LifeIdle
    /\ \E c \in CheckInputs : \E t \in {0, 4} :
         probe = [NoProbe EXCEPT !.pc = "process", !.type = c.type,
                                 !.params = c.params, !.timeoutSeconds = t]

NextProbe ==
    \/ ProbeProcess
    \/ ProbeStart
    \/ ProbeRunOne
    \/ ProbeTick
    \/ ProbeCancel

SpecProbe == InitProbe /\ [][NextProbe]_vars

\* ------------------------------------------------- publisher, shutdown
\* The publisher with a ticker that keeps firing until its context is
\* cancelled.
NextOutboxStop ==
    \/ TickLive
    \/ Enqueue
    \/ Cancel
    \/ RunStop
    \/ \E w \in Workers : WorkerRecv(w)
    \/ \E w \in Workers : WorkerStop(w)
    \/ \E w \in Workers : PushOk(w)
    \/ \E w \in Workers : PushFail(w)
    \/ \E w \in Workers : MarkOk(w)
    \/ \E w \in Workers : MarkFail(w)

\* Run and the workers are goroutines the scheduler keeps running: a step
\* one of them can take is eventually taken.
FairOutboxStop ==
    /\ WF_vars(Enqueue)
    /\ WF_vars(RunStop)
    /\ \A w \in Workers :
         /\ WF_vars(WorkerRecv(w) \/ WorkerStop(w))
         /\ WF_vars(PushOk(w) \/ PushFail(w))
         /\ WF_vars(MarkOk(w) \/ MarkFail(w))

SpecOutboxStop == InitOutbox /\ [][NextOutboxStop]_vars /\ FairOutboxStop

\* ------------------------------------------------------- traceroute hops
outsideTrace ==
    <<dispatchVars, publisherVars, subscriberVars, outbox, clock, agentVars,
      streamVars, probeVars, shutdown, mainProc, subRun>>

\* A word of the tool output: groups of characters that were separated by
\* dots. Quad is a dotted quad as the tool prints it, Star a "*".
Quad(a, b, c, d) == <<Itoa(a), Itoa(b), Itoa(c), Itoa(d)>>

Star == << <<"*">> >>

\* The outputs of the tool, each a list of lines of words: public and
\* private hops, a hop answering on two lines, lines of stars, octets over
\* 255, an octet with a leading zero, and addresses at both edges of the
\* private ranges.
TraceOutputs ==
    { << <<Quad(8, 8, 8, 8)>> >>,
      << <<Quad(10, 0, 0, 1)>>, <<Star, Star, Star>>, <<Quad(8, 8, 8, 8)>>,
         <<Quad(8, 8, 8, 8)>> >>,
      << <<Quad(172, 16, 0, 1), Quad(172, 32, 0, 1)>> >>,
      << <<Quad(256, 1, 1, 1)>>,
         <<Quad(1, 1, 1, 1), Quad(8, 8, 8, 8), Quad(1, 1, 1, 1)>> >>,
      << << <<<<"0", "1">>, Itoa(1), Itoa(1), Itoa(1)>>,
            Quad(100, 64, 0, 1), Quad(100, 128, 0, 1)>> >>,
      << <<Star, Star, Star>> >>,
      << <<Quad(127, 0, 0, 1), Quad(169, 254, 1, 1)>>,
         <<Quad(192, 168, 1, 1), Quad(192, 169, 1, 1)>> >> }

\* ipRe, \b(\d{1,3}(?:\.\d{1,3}){3})\b: four groups of one to three digits.
ipRe(word) ==
    /\ Len(word) = 4
    /\ \A i \in 1..4 :
         /\ Len(word[i]) \in 1..3
         /\ \A k \in 1..Len(word[i]) :
              \E d \in 1..10 : Digits[d] = word[i][k]

\* validIPv4: net.ParseIP takes four decimal octets of at most 255, none
\* with a leading zero.
validIPv4(ip) ==
    \A i \in 1..4 :
        /\ Atoi(ip[i]).n <= 255
        /\ Len(ip[i]) > 1 => ip[i][1] # "0"

\* isPrivateOrReserved: 10/8, 172.16/12, 192.168/16, 100.64/10, 127/8 and
\* 169.254/16; ip4[1]&0xf0 and ip4[1]&0xc0 clear the low four and six bits.
isPrivateOrReserved(ip) ==
    LET a == Atoi(ip[1]).n
        b == Atoi(ip[2]).n
    IN  \/ ~validIPv4(ip)
        \/ a = 10
        \/ a = 172 /\ (b \div 16) * 16 = 16
        \/ a = 192 /\ b = 168
        \/ a = 100 /\ (b \div 64) * 64 = 64
        \/ a = 127
        \/ a = 169 /\ b = 254

\* parseTraceIPs keeping every match, without the seen map.
parseTraceIPsKeepsAll(output) ==
    LET RECURSIVE Words(_)
        Words(lines) ==
            IF lines = <<>> THEN <<>> ELSE Head(lines) \o Words(Tail(lines))
        RECURSIVE Scan(_, _)
        Scan(words, ips) ==
            IF words = <<>> THEN ips
            ELSE IF ipRe(Head(words)) /\ validIPv4(Head(words))
                 THEN Scan(Tail(words), Append(ips, Head(words)))
                 ELSE Scan(Tail(words), ips)
    IN  Scan(Words(output), <<>>)

\* parseTraceIPs: line by line, a line of three or more stars without a
\* match is skipped; every match that is a valid IPv4 address and was not
\* seen before is appended.
parseTraceIPs(output) ==
    LET Skipped(ln) ==
            /\ Cardinality({k \in 1..Len(ln) : ln[k] = Star}) >= 3
            /\ ~\E k \in 1..Len(ln) : ipRe(ln[k])
        RECURSIVE Words(_)
        Words(lines) ==
            IF lines = <<>> THEN <<>>
            ELSE IF Skipped(Head(lines)) THEN Words(Tail(lines))
            ELSE Head(lines) \o Words(Tail(lines))
        RECURSIVE Scan(_, _)
        Scan(words, ips) ==
            IF words = <<>> THEN ips
            ELSE IF /\ ipRe(Head(words))
                    /\ validIPv4(Head(words))
                    /\ ~\E k \in 1..Len(ips) : ips[k] = Head(words)
                 THEN Scan(Tail(words), Append(ips, Head(words)))
                 ELSE Scan(Tail(words), ips)
    IN  Scan(Words(output), <<>>)

\* NewMemoryGeoCache(..., 1*time.Hour): the clock of these steps counts half
\* hours.
ttl == 2

\* What the geo-IP backend answers: not found, or coordinates.
GeoAnswers ==
    { [ok |-> FALSE, lat |-> 0, lon |-> 0], [ok |-> TRUE, lat |-> 50, lon |-> 8] }

\* MemoryGeoCache.Resolve: an entry that has not expired is returned without
\* asking the backend; otherwise the backend is asked, and its answer is
\* stored with exp = now + ttl unless it is an error.
Resolve(mapt, ip, now, answer) ==
    LET live == { e \in mapt : e.ip = ip /\ now < e.exp }
    IN  IF live # {}
        THEN LET e == CHOOSE e \in live : TRUE
             IN  [asked |-> FALSE, ok |-> TRUE, lat |-> e.lat, lon |-> e.lon,
                  mapt |-> mapt]
        ELSE [asked |-> TRUE, ok |-> answer.ok, lat |-> answer.lat,
              lon |-> answer.lon,
              mapt |-> IF answer.ok
                       THEN { e \in mapt : e.ip # ip }
                              \cup {[ip |-> ip, lat |-> answer.lat,
                                     lon |-> answer.lon, exp |-> now + ttl]}
                       ELSE mapt]

\* Hop{IP: ip} and Hop{IP: ip, Lat: &lat, Lon: &lon}.
Hop(ip, geo, lat, lon) == [ip |-> ip, geo |-> geo, lat |-> lat, lon |-> lon]

\* runTraceroute up to the hop loop: the tool has written its output, and a
\* new MemoryGeoCache is made for this run.
TraceStart ==
    /\ trace.pc = "idle"
    /\ trace.runs < MaxRuns
    /\ \E out \in TraceOutputs :
         trace' = [trace EXCEPT !.pc = "hops", !.output = out,
                                !.ips = parseTraceIPs(out), !.hops = <<>>,
                                !.mapt = {}]
    /\ UNCHANGED outsideTrace

\* One round of the hop loop; a run is far shorter than half an hour.
TraceHop ==
    /\ trace.pc = "hops"
    /\ Len(trace.hops) < Len(trace.ips)
    /\ LET ip == trace.ips[Len(trace.hops) + 1]
       IN  IF isPrivateOrReserved(ip)
           THEN trace' = [trace EXCEPT
                            !.hops = Append(@, Hop(ip, FALSE, 0, 0))]
           ELSE \E answer \in GeoAnswers :
                  LET r == Resolve(trace.mapt, ip, trace.now, answer)
                  IN  trace' =
                        [trace EXCEPT
                           !.hops = Append(@, IF r.ok
                                              THEN Hop(ip, TRUE, r.lat, r.lon)
                                              ELSE Hop(ip, FALSE, 0, 0)),
                           !.mapt = r.mapt,
                           !.geoLog = IF r.asked
                                      THEN Append(@, [ip |-> ip,
                                                      at |-> trace.now,
                                                      ok |-> r.ok])
                                      ELSE @]
    /\ UNCHANGED outsideTrace

\* runTraceroute returns the result with the hops in its payload.
TraceReturn ==
    /\ trace.pc = "hops"
    /\ Len(trace.hops) = Len(trace.ips)
    /\ trace' = [trace EXCEPT !.pc = "idle", !.runs = @ + 1]
    /\ UNCHANGED outsideTrace

\* Half an hour passes between two runs.
TraceTick ==
    /\ trace.pc = "idle"
    /\ trace.now < MaxHalfHours
    /\ trace' = [trace EXCEPT !.now = @ + 1]
    /\ UNCHANGED outsideTrace

InitLife ==
    /\ agents = SeedAgents
    /\ requests = {} /\ assignments = {} /\ outbox = {}
    /\ clock = 1
    /\ call = [c \in Calls |-> IdleCall]
    /\ lastBatch = <<>>
    /\ PublisherIdle
    /\ SubscriberIdle
    /\ AgentIdle
    /\ StreamIdle
    /\ ProbeIdle
    /\ LifeIdle

NextTrace ==
    \/ TraceStart
    \/ TraceHop
    \/ TraceReturn
    \/ TraceTick

SpecTrace == InitLife /\ [][NextTrace]_vars

\* ------------------------------------------------- main and App.Shutdown
outsideMain ==
    <<dispatchVars, publisherVars, subscriberVars, outbox, clock, agentVars,
      streamVars, probeVars, trace, subRun>>

\* The closers that can return an error: RDB.Close, HTTPServer.Shutdown, the
\* two readers of the GeoDB, and the consumer of the agent.
Closers == {"rdb", "http", "asn", "country", "consumer"}

\* fmt.Errorf with %w verbs: the new error wraps its operands; an error is
\* written as the list of the errors it wraps, nil as the empty list.
Errorf(err, cause) == err \o cause

\* errors.Is: the target is the error or one of the errors it wraps.
Is(err, target) == \E i \in 1..Len(err) : err[i] = target

\* Geo.Close: both readers are closed and their errors are put into the
\* named result, which "return nil" then overwrites.
GeoClose(fails) ==
    LET asnErr == IF "asn" \in fails THEN <<"asn">> ELSE <<>>
        err == Errorf(asnErr,
                      IF "country" \in fails THEN <<"country">> ELSE <<>>)
    IN  [closed |-> {"asn", "country"}, err |-> SubSeq(err, 1, 0)]

\* The deferred calls of main run last in, first out: the backend closes the
\* errors channel and then shuts down, the agent shuts down and then closes.
FirstDeferred(kind) == IF kind = "backend" THEN "close" ELSE "shutdown"

AfterClose(kind) == IF kind = "backend" THEN "shutdown" ELSE "exit"

AfterShutdown(kind) == IF kind = "backend" THEN "exit" ELSE "close"

\* main up to its select: the errors channel is made and the goroutine that
\* forwards application.Run is started.
MainStart ==
    /\ mainProc.pc = "idle"
    /\ \E kind \in {"agent", "backend"}, fails \in SUBSET Closers :
         /\ fails \subseteq (IF kind = "agent" THEN {"consumer"}
                             ELSE Closers \ {"consumer"})
         /\ mainProc' = [NoMain EXCEPT !.pc = "select", !.kind = kind,
                                       !.run = "running"]
         /\ shutdown' = [NoShutdown EXCEPT !.fails = fails]
    /\ UNCHANGED outsideMain

\* SIGINT or SIGTERM: the context of signal.NotifyContext is done.
MainSignal ==
    /\ mainProc.pc \in {"select", "close", "shutdown", "exit"}
    /\ ~mainProc.ctxDone
    /\ mainProc' = [mainProc EXCEPT !.ctxDone = TRUE]
    /\ UNCHANGED <<shutdown, outsideMain>>

\* application.Run returns in the goroutine: the agent's Service.Run when
\* its context is done or the consumer closed its channel, the backend's
\* App.Run when the HTTP server stopped serving.
RunReturn ==
    /\ mainProc.run = "running"
    /\ mainProc' = [mainProc EXCEPT !.run = "sending"]
    /\ UNCHANGED <<shutdown, outsideMain>>

\* The goroutine's errors <- ... on the closed channel panics, whether it
\* was blocked in the send before the close or starts it afterwards.
RunPanic ==
    /\ mainProc.run = "sending"
    /\ mainProc.closed
    /\ mainProc' = [mainProc EXCEPT !.run = "panicked"]
    /\ UNCHANGED <<shutdown, outsideMain>>

\* select, case err := <-errors: the unbuffered send and the receive meet.
MainRecv ==
    /\ mainProc.pc = "select"
    /\ mainProc.run = "sending"
    /\ mainProc' = [mainProc EXCEPT !.run = "sent",
                                    !.pc = FirstDeferred(mainProc.kind)]
    /\ UNCHANGED <<shutdown, outsideMain>>

\* select, case <-ctx.Done().
MainCtxDone ==
    /\ mainProc.pc = "select"
    /\ mainProc.ctxDone
    /\ mainProc' = [mainProc EXCEPT !.pc = FirstDeferred(mainProc.kind)]
    /\ UNCHANGED <<shutdown, outsideMain>>

\* The deferred close(errors).
MainClose ==
    /\ mainProc.pc = "close"
    /\ mainProc' = [mainProc EXCEPT !.closed = TRUE,
                                    !.pc = AfterClose(mainProc.kind)]
    /\ UNCHANGED <<shutdown, outsideMain>>

\* App.Shutdown of the agent: Service.Stop, whose error is returned wrapped.
AgentShutdown ==
    /\ mainProc.pc = "shutdown" /\ mainProc.kind = "agent"
    /\ shutdown' = [shutdown EXCEPT
                      !.pc = "done", !.ran = {"consumer"},
                      !.err = IF "consumer" \in shutdown.fails
                              THEN <<"consumer">> ELSE <<>>,
                      !.ret = IF "consumer" \in shutdown.fails
                              THEN "error" ELSE "nil"]
    /\ mainProc' = [mainProc EXCEPT !.pc = AfterShutdown(mainProc.kind)]
    /\ UNCHANGED outsideMain

\* App.Shutdown of the backend: DB.Close, and err starts as ErrShutdown.
ShutdownDB ==
    /\ mainProc.pc = "shutdown" /\ mainProc.kind = "backend"
    /\ shutdown.pc = "idle"
    /\ shutdown' = [shutdown EXCEPT !.pc = "rdb", !.ran = {"db"},
                                    !.err = <<"ErrShutdown">>]
    /\ UNCHANGED <<mainProc, outsideMain>>

\* App.Shutdown: RDB.Close, then HTTPServer.Shutdown; an error is wrapped
\* into err together with what err was.
ShutdownStep ==
    /\ shutdown.pc \in {"rdb", "http"}
    /\ shutdown' = [shutdown EXCEPT
                      !.pc = IF shutdown.pc = "rdb" THEN "http" ELSE "geo",
                      !.ran = @ \cup {shutdown.pc},
                      !.err = IF shutdown.pc \in shutdown.fails
                              THEN Errorf(@, <<shutdown.pc>>) ELSE @]
    /\ UNCHANGED <<mainProc, outsideMain>>

\* App.Shutdown: GeoDB.Close.
ShutdownGeo ==
    /\ shutdown.pc = "geo"
    /\ LET geo == GeoClose(shutdown.fails)
       IN  shutdown' = [shutdown EXCEPT
                          !.pc = "return",
                          !.ran = @ \cup geo.closed,
                          !.err = IF geo.err # <<>>
                                  THEN Errorf(@, <<"geo">>) ELSE @]
    /\ UNCHANGED <<mainProc, outsideMain>>

\* App.Shutdown: err is returned unless errors.Is(err, ErrShutdown).
ShutdownReturn ==
    /\ shutdown.pc = "return"
    /\ shutdown' = [shutdown EXCEPT
                      !.pc = "done",
                      !.ret = IF ~Is(shutdown.err, "ErrShutdown")
                              THEN "error" ELSE "nil"]
    /\ mainProc' = [mainProc EXCEPT !.pc = AfterShutdown(mainProc.kind)]
    /\ UNCHANGED outsideMain

\* main returns and the process ends, with it a goroutine still running.
MainExit ==
    /\ mainProc.pc = "exit"
    /\ mainProc' = [mainProc EXCEPT
                      !.pc = "exited",
                      !.run = IF @ \in {"running", "sending"}
                              THEN "killed" ELSE @]
    /\ UNCHANGED <<shutdown, outsideMain>>

NextMain ==
    \/ MainStart
    \/ MainSignal
    \/ RunReturn
    \/ RunPanic
    \/ MainRecv
    \/ MainCtxDone
    \/ MainClose
    \/ AgentShutdown
    \/ ShutdownDB
    \/ ShutdownStep
    \/ ShutdownGeo
    \/ ShutdownReturn
    \/ MainExit

SpecMain == InitLife /\ [][NextMain]_vars

\* ------------------------------------------------ results of a broadcast
\* One broadcast request, dispatched to every agent of a table that holds
\* two of the seeded agents, and published, with no result yet.
InitStreamBroadcast ==
    /\ agents = { a \in SeedAgents : a.region \in {"EU", "APAC"} }
    /\ requests = { [id |-> StreamRequest, broadcast |-> TRUE,
                     clientIP |-> NilIP, clientASN |-> 0, clientCC |-> "",
                     clientRegion |-> "EU",
                     requestJSON |-> MarshalTask(StreamRequest, "EU"),
                     status |-> "PENDING"] }
    /\ assignments = { [id |-> <<StreamRequest, AgentRank(a.id)>>,
                        requestId |-> StreamRequest,
                        agentId |-> a.id, agentRegion |-> a.region,
                        outboxId |-> <<StreamRequest, AgentRank(a.id)>>,
                        status |-> "PENDING"] : a \in agents }
    /\ outbox = { [CommittedRow(StreamRequest, 1) EXCEPT
                     !.id = <<StreamRequest, AgentRank(a.id)>>,
                     !.topic = Topic(a.region),
                     !.payload = MarshalTask(StreamRequest, a.region),
                     !.sent = TRUE, !.sentAt = 2] : a \in agents }
    /\ clock = 3
    /\ call = [c \in Calls |-> IdleCall]
    /\ lastBatch = <<>>
    /\ PublisherIdle
    /\ SubscriberIdle
    /\ AgentIdle
    /\ StreamIdle
    /\ ProbeIdle
    /\ LifeIdle

SpecStreamBroadcast == InitStreamBroadcast /\ [][NextStream]_vars

\* --------------------------------------- publisher with a refusing topic
\* The rows addressed to a topic that never accepts a message.
RefusedIds == { <<1, 1>> }

\* sendAndMark: PushMessage succeeds, which it does not for a refused row.
PushOkAccepted(w) ==
    /\ worker[w].msg.id \notin RefusedIds
    /\ PushOk(w)

NextOutboxRefusing ==
    \/ TickLive
    \/ Enqueue
    \/ \E w \in Workers : WorkerRecv(w)
    \/ \E w \in Workers : PushOkAccepted(w)
    \/ \E w \in Workers : PushFail(w)
    \/ \E w \in Workers : MarkOk(w)
    \/ \E w \in Workers : MarkFail(w)

\* Ticks keep firing and the goroutines keep running; for every row the
\* topic accepts, a publish and a mark-as-sent that are attempted again and
\* again eventually succeed.
FairOutboxRefusing ==
    /\ WF_vars(TickLive)
    /\ WF_vars(Enqueue)
    /\ \A w \in Workers :
         /\ WF_vars(WorkerRecv(w))
         /\ WF_vars(PushOkAccepted(w) \/ PushFail(w))
         /\ WF_vars(MarkOk(w) \/ MarkFail(w))
    /\ \A id \in RowIds \ RefusedIds :
         SF_vars(PushOkRow(id)) /\ SF_vars(MarkOkRow(id))

SpecOutboxRefusing ==
    InitOutbox /\ [][NextOutboxRefusing]_vars /\ FairOutboxRefusing

\* ------------------------------------------------- Subscriber.Run ending
\* Subscriber.Run and Service.Run of the agent are the same loop over the
\* same kind of channel; the steps below are written for the subscriber.
SubRunStart ==
    /\ subRun.pc = "idle"
    /\ subRun' = [subRun EXCEPT !.pc = "select"]
    /\ UNCHANGED <<subscriberVars, dispatchVars, publisherVars, outbox, clock,
                   agentVars, streamVars, probeVars, trace, shutdown,
                   mainProc>>

\* Run, case msg, ok := <-s.consumer.Messages() with ok = true; the select
\* can take this case also when ctx is done.
SubRunRecv(o) ==
    /\ subRun.pc = "select"
    /\ o \in 1..Len(resultTopic)
    /\ delivered < MaxDeliveries
    /\ delivered' = delivered + 1
    /\ subRun' = [subRun EXCEPT
                    !.pc = "send",
                    !.msg = [offset |-> o, key |-> resultTopic[o].key,
                             value |-> resultTopic[o].value]]
    /\ UNCHANGED <<inboxTable, checkResults, resultTopic, subPipe, acked,
                   subWorker, nextResultId, dispatchVars, publisherVars,
                   outbox, clock, agentVars, streamVars, probeVars, trace,
                   shutdown, mainProc>>

\* Run, messagePipe <- msg: blocks while the buffer is full.
SubRunSend ==
    /\ subRun.pc = "send"
    /\ Len(subPipe) < SubPipeCap
    /\ subPipe' = Append(subPipe, subRun.msg)
    /\ subRun' = [subRun EXCEPT !.pc = "select", !.msg = NoDelivery]
    /\ UNCHANGED <<inboxTable, checkResults, resultTopic, delivered, acked,
                   subWorker, nextResultId, dispatchVars, publisherVars,
                   outbox, clock, agentVars, streamVars, probeVars, trace,
                   shutdown, mainProc>>

\* Run closing messagePipe and returning without having stopped.
SubRunStopKeepsRunning ==
    /\ subRun.pc = "select"
    /\ subRun.ctxDone
    /\ subRun' = [subRun EXCEPT !.closed = TRUE]
    /\ UNCHANGED <<subscriberVars, dispatchVars, publisherVars, outbox, clock,
                   agentVars, streamVars, probeVars, trace, shutdown,
                   mainProc>>

\* Run, case <-ctx.Done(): close(messagePipe) and return.
SubRunStop ==
    /\ subRun.pc = "select"
    /\ subRun.ctxDone
    /\ subRun' = [subRun EXCEPT !.pc = "stopped", !.closed = TRUE]
    /\ UNCHANGED <<subscriberVars, dispatchVars, publisherVars, outbox, clock,
                   agentVars, streamVars, probeVars, trace, shutdown,
                   mainProc>>

\* Run, case msg, ok := <-s.consumer.Messages() with ok = false: the consumer
\* closed its channel; close(messagePipe) and return.
SubRunConsumerClosed ==
    /\ subRun.pc = "select"
    /\ subRun' = [subRun EXCEPT !.pc = "stopped", !.closed = TRUE]
    /\ UNCHANGED <<subscriberVars, dispatchVars, publisherVars, outbox, clock,
                   agentVars, streamVars, probeVars, trace, shutdown,
                   mainProc>>

\* The context given to Run is cancelled.
SubCancel ==
    /\ subRun.pc # "idle"
    /\ ~subRun.ctxDone
    /\ subRun' = [subRun EXCEPT !.ctxDone = TRUE]
    /\ UNCHANGED <<subscriberVars, dispatchVars, publisherVars, outbox, clock,
                   agentVars, streamVars, probeVars, trace, shutdown,
                   mainProc>>

\* worker, case <-ctx.Done(), or the channel is closed and drained.
SubWorkerStop(w) ==
    /\ subWorker[w].pc = "recv"
    /\ subRun.ctxDone \/ (subRun.closed /\ subPipe = <<>>)
    /\ subWorker' = [subWorker EXCEPT ![w].pc = "stopped"]
    /\ UNCHANGED <<inboxTable, checkResults, resultTopic, delivered, subPipe,
                   acked, nextResultId, outsideSubscriber>>

\* Every step of one worker.
SubWorkerStep(w) ==
    \/ SubRecv(w)
    \/ SubWorkerStop(w)
    \/ SubBegin(w)
    \/ SubBeginFail(w)
    \/ SubInsertInbox(w)
    \/ SubInsertResult(w)
    \/ SubCommit(w)
    \/ SubDbError(w)
    \/ SubMark(w)

NextInboxStop ==
    \/ SubRunStart
    \/ \E o \in 1..MaxMsgs : SubRunRecv(o)
    \/ SubRunSend
    \/ SubRunStop
    \/ SubRunConsumerClosed
    \/ SubCancel
    \/ \E w \in SubWorkers : SubWorkerStep(w)

\* Run and the workers keep running: a send that stays possible is made, a
\* select with ctx done ends, and a worker takes its next step.
FairInboxStop ==
    /\ WF_vars(SubRunStart)
    /\ WF_vars(SubRunSend)
    /\ WF_vars(SubRunStop)
    /\ \A w \in SubWorkers : WF_vars(SubWorkerStep(w))

SpecInboxStop == InitInbox /\ [][NextInboxStop]_vars /\ FairInboxStop

\* A row the reader sees belongs to a request the reader sees.
RequestVisible(o) ==
    \E a \in assignments :
        /\ a.outboxId = o.id
        /\ \E r \in requests : r.id = a.requestId

\* C1: atomic dispatch. A call that returned success left exactly one
\* request row; each of its assignments references an outbox row of the same
\* call whose topic is "hosts-check-" + agentRegion and whose payload is the
\* serialized envelope carrying the request id; and no outbox row is visible,
\* in the table or in a batch a reader got, without its request row.
AtomicDispatch ==
    /\ \A c \in Calls :
         call[c].pc = "ok" =>
           /\ Cardinality({ r \in requests : r.id = c }) = 1
           /\ \A a \in assignments :
                a.requestId = c =>
                  \E o \in outbox :
                    /\ o.id = a.outboxId
                    /\ o.id[1] = c
                    /\ o.topic = "hosts-check-" \o a.agentRegion
                    /\ TaskIdOf(o.payload) = c
                    /\ \A r \in requests : r.id = c => o.payload = r.requestJSON
    /\ \A o \in outbox : RequestVisible(o)
    /\ \A i \in 1..Len(lastBatch) : RequestVisible(lastBatch[i])
    /\ \A a \in assignments : \E r \in requests : r.id = a.requestId

\* C1 witness: a broadcast call committed several assignments and a reader
\* has fetched one of its outbox rows.
AtomicDispatchWitness ==
    \E c \in Calls :
        /\ call[c].pc = "ok"
        /\ call[c].broadcast
        /\ Cardinality({ a \in assignments : a.requestId = c }) >= 2
        /\ lastBatch # <<>>
        /\ lastBatch[1].id[1] = c

\* C2: once UpdateAsSent has set sent = true for a row, PushMessage is never
\* called for that row again.
NeverRepublished == \A e \in pushLog : ~e.afterSent

UnsentIn(rows, id) == \E r \in rows : r.id = id /\ ~r.sent

AckedOnlyIfPersisted ==
    \A o \in acked :
        Unmarshal(resultTopic[o].value).ok =>
            /\ \E r \in inboxTable : r.id = FromBytes(resultTopic[o].key).id
            /\ \E cr \in checkResults : cr.payload = resultTopic[o].value

\* C5: idempotent ingest. However often and however concurrently messages
\* with one key id are delivered, the inbox table holds at most one row with
\* that id, and no ingest transaction fails on the duplicate.
IdempotentIngest ==
    /\ \A r1, r2 \in inboxTable : r1.id = r2.id => r1 = r2
    /\ \A w \in SubWorkers : subWorker[w].err # "conflict"

\* C5 witness: two deliveries with the same key id were both committed and
\* left one inbox row.
IdempotentIngestWitness ==
    /\ \E a, b \in checkResults : a.id # b.id
    /\ Cardinality(inboxTable) = 1
    /\ \A w \in SubWorkers : subWorker[w].pc = "recv"
    /\ Cardinality(acked) >= 1

\* C6: a result message delivered twice, both deliveries processed, leaves at
\* most one check_result row for that message.
OneResultPerMessage ==
    \A a, b \in checkResults : a.payload = b.payload => a = b

\* C7: per-task completeness. When RunCheck has returned for a task with N
\* checks, the result topic holds, with key = task id, exactly one envelope
\* for each checkIndex in 0..N-1, and the envelope of a check whose deadline
\* expired has ok = false.
PerTaskCompleteness ==
    agentRun = "returned" =>
        \A i \in CheckIds :
            /\ Cardinality({ k \in 1..Len(produced) :
                              /\ produced[k].key = KeyOf(agentTask.id)
                              /\ produced[k].value.checkIndex = i - 1 }) = 1
            /\ \A k \in 1..Len(produced) :
                 (produced[k].value.checkIndex = i - 1 /\ check[i].expired)
                    => ~produced[k].value.ok

\* C8: stream termination. A tick whose list is non-empty and holds only
\* terminal statuses (DONE or FAILED as the ingest path stores them, or
\* TIMEOUT or CANCELLED) ends with a done frame carrying that list and closes
\* the stream.
StreamTerminates ==
    [][\A list \in SelectResultsByRequestID(streamId) : \A ok \in BOOLEAN :
         ( /\ StreamTick(list, ok)
           /\ streamPc' # "broken"
           /\ Len(list) # 0
           /\ \A i \in 1..Len(list) :
                list[i].status \in {"DONE", "FAILED", "TIMEOUT", "CANCELLED"} )
         => ( /\ streamPc' = "done"
              /\ frames'[Len(frames')] = Frame("done", list) )]_vars

IsDelta(f) == f.type \in {"snapshot", "update"}
Deltas(fs) == SelectSeq(fs, IsDelta)

\* C9: stream delta correctness. The first frame carrying data is a snapshot
\* and it is the only snapshot; the first successful tick sends it whatever
\* the list holds; a later successful tick sends an update if and only if the
\* hash of its list differs from the hash of the last list sent; so no two
\* consecutive snapshot/update frames carry the same list.
DeltaCorrect ==
    /\ [](LET D == Deltas(frames)
          IN /\ \A i \in 1..Len(frames) :
                  (frames[i].hasData /\ \A j \in 1..i - 1 : ~frames[j].hasData)
                     => frames[i].type = "snapshot"
             /\ \A i \in 1..Len(D) : (D[i].type = "snapshot") <=> (i = 1)
             /\ \A i \in 1..Len(D) - 1 : D[i].data # D[i + 1].data
             /\ lastHash = IF D = <<>> THEN NoHash
                           ELSE Hash(MarshalList(D[Len(D)].data)))
    /\ [][\A list \in SelectResultsByRequestID(streamId) : \A ok \in BOOLEAN :
            (StreamTick(list, ok) /\ streamPc' # "broken")
            => Deltas(frames') =
                 IF lastHash = NoHash
                 THEN Append(Deltas(frames), Frame("snapshot", list))
                 ELSE IF Hash(MarshalList(list)) # lastHash
                 THEN Append(Deltas(frames), Frame("update", list))
                 ELSE Deltas(frames)]_vars

\* C9 witness: a snapshot of one list was followed by an update with a longer
\* list, and the stream is still open.
DeltaCorrectWitness ==
    /\ streamPc = "loop"
    /\ \E i, j \in 1..Len(frames) :
         /\ i < j
         /\ frames[i].type = "snapshot" /\ frames[j].type = "update"
         /\ Len(frames[i].data) < Len(frames[j].data)

\* C10: a done frame is emitted at most once and is the last frame on the
\* socket, and when it is emitted every item of the request's result list has
\* a terminal status.
DoneIsLast ==
    /\ [](\A i \in 1..Len(frames) :
            frames[i].type = "done" =>
              /\ i = Len(frames)
              /\ streamPc \in {"done", "cancelled"}
              /\ \A k \in 1..Len(frames[i].data) :
                   frames[i].data[k].status
                     \in {"SUCCESS", "DONE", "FAILED", "TIMEOUT", "CANCELLED"})
    /\ [][(Len(frames') > Len(frames) /\ frames'[Len(frames')].type = "done")
            => \A list \in SelectResultsByRequestID(streamId) :
                 \A k \in 1..Len(list) :
                   list[k].status
                     \in {"SUCCESS", "DONE", "FAILED", "TIMEOUT", "CANCELLED"}
          ]_vars

\* C10 witness: a done frame with the final list was written after at least
\* one other frame and the handler returned.
DoneIsLastWitness ==
    /\ streamPc = "done"
    /\ Len(frames) >= 2
    /\ frames[Len(frames)].type = "done" /\ frames[Len(frames)].hasData
    /\ Len(frames[Len(frames)].data) = 2

\* C11: a check of a consumed task whose type is none of http, tcp, ping,
\* dns, traceroute gets a published envelope with ok = false ("unsupported
\* check type") once the task has been processed.
UnsupportedYieldsFailure ==
    (agentPc \in {"mark", "idle"} /\ agentTask # NoTask) =>
        \A i \in CheckIds :
            ~Supported(agentTask.checks[i]) =>
                \E k \in 1..Len(produced) :
                    /\ produced[k].key = KeyOf(agentTask.id)
                    /\ produced[k].value.checkIndex = i - 1
                    /\ ~produced[k].value.ok

\* C12: sibling independence. Once a task has been processed, every check of
\* it that is of a supported type has run and gone through publish, whatever
\* the types and outcomes of the other checks of the task.
SiblingIndependence ==
    (agentPc \in {"mark", "idle"} /\ agentTask # NoTask) =>
        \A i \in CheckIds :
            Supported(agentTask.checks[i]) => check[i].pc = "end"

AssignmentsOf(id) == { a \in assignments : a.requestId = id }

\* C13: broadcast fan-out. A committed broadcast request has exactly one
\* assignment per agent row, no agent twice; a committed nearest-region
\* request has exactly one assignment, in the request's clientRegion.
BroadcastFanOut ==
    \A r \in requests :
        IF r.broadcast
        THEN /\ Cardinality(AssignmentsOf(r.id)) = Cardinality(agents)
             /\ { a.agentId : a \in AssignmentsOf(r.id) }
                  = { g.id : g \in agents }
        ELSE /\ Cardinality(AssignmentsOf(r.id)) = 1
             /\ \A a \in AssignmentsOf(r.id) : a.agentRegion = r.clientRegion

\* C13 witness: a committed broadcast request over the three seeded agents
\* with its three assignments.
BroadcastFanOutWitness ==
    \E r \in requests :
        /\ r.broadcast
        /\ agents = SeedAgents
        /\ Cardinality(AssignmentsOf(r.id)) = 3

\* C14: dispatcher rollback. A call that answered 500 after a failure inside
\* its transaction left no request row, no assignment and no outbox row, and
\* no reader ever got a row of it.
DispatcherRollback ==
    \A c \in Calls :
        HttpStatus(c) = 500 =>
            /\ \A r \in requests : r.id # c
            /\ AssignmentsOf(c) = {}
            /\ \A o \in outbox : o.id[1] # c
            /\ \A i \in 1..Len(lastBatch) : lastBatch[i].id[1] # c

\* C14 witness: a call failed after it had inserted its request row, an
\* outbox row and an assignment.
DispatcherRollbackWitness ==
    \E c \in Calls :
        /\ HttpStatus(c) = 500
        /\ call[c].k >= 1
        /\ call[c].pc = "error"
        /\ call[c].todo = <<>>

\* C15: no request is ever committed with zero assignments: without an agent
\* to assign, CreateRequest fails and persists nothing.
NoRequestWithoutAssignment ==
    \A r \in requests : AssignmentsOf(r.id) # {}

\* C16: end-to-end delivery. For a dispatched request with N checks and A
\* assignments whose task reached the agent, eventually A x N CheckResult
\* rows with assignmentId = request id exist.
EndToEndDelivery ==
    <>(Cardinality({ cr \in checkResults : cr.assignmentId = StreamRequest })
         >= Cardinality(AssignmentsOf(StreamRequest)) * Len(agentTask.checks))

\* C17: the agent acknowledges a task only after every envelope of the task
\* was published successfully: an acknowledged task that ran has an envelope
\* on the result topic for each of its checks.
AckAfterPublish ==
    (agentPc = "idle" /\ agentRun = "returned") =>
        \A i \in CheckIds :
            \E k \in 1..Len(produced) :
                produced[k].value.taskId = agentTask.id
                    /\ produced[k].value.checkIndex = i - 1

\* C18: poison-pill policy. A message whose key is no 16-byte uuid is
\* skipped and acknowledged, and a message whose value does not decode is
\* acknowledged without any inbox row or CheckResult being inserted.
PoisonPillAcked ==
    /\ [][\A w \in SubWorkers :
            (SubRecv(w) /\ ~FromBytes(Head(subPipe).key).ok)
               => Head(subPipe).offset \in acked']_vars
    /\ [][\A w \in SubWorkers :
            (SubMark(w) /\ subWorker[w].err = "decode")
               => /\ subWorker[w].msg.offset \in acked'
                  /\ inboxTable' = inboxTable
                  /\ checkResults' = checkResults]_vars

\* C19: stream error handling. An invalid request_id is answered with the one
\* error frame "invalid request_id" and the handler returns without polling;
\* a tick whose query fails writes an error frame, leaves the stored hash
\* unchanged and the loop goes on.
StreamErrorHandling ==
    /\ [](streamPc = "invalid" =>
            (frames = <<ErrorFrame("invalid request_id")>>
               /\ lastHash = NoHash))
    /\ [][streamPc = "invalid" => UNCHANGED <<streamPc, frames, lastHash>>]_vars
    /\ [][( /\ streamPc = "loop"
            /\ Len(frames') = Len(frames) + 1
            /\ frames'[Len(frames')].type = "error" )
          => (lastHash' = lastHash /\ streamPc' = "loop")]_vars

\* C19 witness: after an error frame for a failed query the stream went on
\* and sent a list.
StreamErrorHandlingWitness ==
    /\ streamPc = "loop"
    /\ \E i, j \in 1..Len(frames) :
         /\ i < j
         /\ frames[i].type = "error"
         /\ frames[j].type \in {"snapshot", "update"}

EnvelopeErrorIffFailed ==
    probe.pc = "done" =>
        /\ (probe.res.error # "") <=> ~probe.res.ok
        /\ probe.res.ok => probe.res.payload.set

\* C22: a numeric parameter given as the string of an integer is accepted by
\* ParseTask and normalized like the equal JSON number; so are the two
\* elements of expectedStatusRange.
NumericStringsAccepted ==
    LET AsNumber(v) == JNum(Atoi(v.s).n)
        IsIntString(v) == v.k = "str" /\ ~Atoi(v.s).err
        rg == probe.params["expectedStatusRange"]
        Same(m) ==
            /\ probe.pc # "rejected"
            /\ probe.pc # "process" =>
                 probe.norm = normalizeCheckParams(probe.type, m).p
    IN  /\ \A f \in {"maxBodyBytes", "count", "intervalMs", "port",
                     "connectTimeoutMs", "maxHops"} :
             IsIntString(probe.params[f]) =>
                 Same([probe.params EXCEPT ![f] = AsNumber(@)])
        /\ (/\ rg.k = "arr" /\ Len(rg.a) = 2
            /\ IsIntString(rg.a[1]) /\ IsIntString(rg.a[2])) =>
               Same([probe.params EXCEPT !["expectedStatusRange"] =
                       JArr(<<AsNumber(rg.a[1]), AsNumber(rg.a[2])>>)])

\* C23: an http check with expectedStatusRange "[a,b]" or [a,b] runs with
\* the range [a,b], one without the parameter runs with [200,299], and the
\* probe reports ok exactly when the status code lies in that range.
StatusRangeNormalized ==
    LET rg == probe.params["expectedStatusRange"]
        Text(a, b) == <<"[">> \o Itoa(a) \o <<",">> \o Itoa(b) \o <<"]">>
        Expect(a, b) ==
            (probe.pc \in {"start", "runOne", "done"} /\ probe.type = "http")
            => /\ probe.norm.expectedStatusRange = <<a, b>>
               /\ (probe.pc = "done" /\ probe.res.payload.status # 0) =>
                    (probe.res.ok <=> /\ a <= probe.res.payload.status
                                      /\ probe.res.payload.status <= b)
    IN  /\ rg.k = "absent" => Expect(200, 299)
        /\ \A a, b \in {0, 200, 204, 404} :
               (rg = JStr(Text(a, b)) \/ rg = JArr(<<JNum(a), JNum(b)>>))
               => Expect(a, b)

\* C24: RunCheck gives the task timeoutSeconds seconds, 20 when that is not
\* positive; every check ends at the earlier of the task's deadline and its
\* start plus 5 s (http), 3 s (tcp), 6 s (ping), 4 s (dns), 16 s
\* (traceroute), 5 s (other), whatever the case of the kind's letters; the
\* check's context is done whenever the task's is, and no probe succeeds
\* after its deadline.
CheckDeadlines ==
    LET overall == IF probe.timeoutSeconds <= 0 THEN 20
                   ELSE probe.timeoutSeconds
        per == CASE probe.type \in {"http", "HTTP"} -> 5
                 [] probe.type = "tcp" -> 3
                 [] probe.type = "ping" -> 6
                 [] probe.type \in {"dns", "Dns"} -> 4
                 [] probe.type = "traceroute" -> 16
                 [] OTHER -> 5
        bound == IF probe.startedAt + per < overall
                 THEN probe.startedAt + per ELSE overall
    IN  /\ probe.pc \in {"start", "runOne", "done"} =>
             probe.deadline = overall
        /\ probe.pc = "runOne" =>
             /\ probe.perDeadline = bound
             /\ probe.perDeadline <= probe.deadline
             /\ CtxDone => PerDone
        /\ probe.pc = "done" =>
             /\ probe.perDeadline = bound
             /\ probe.res.ok => probe.now < bound

\* A check of kind "HTTP" in a task of 4 seconds starts after 2 seconds, is
\* cut at the task's deadline and fails.
CheckDeadlinesWitness ==
    /\ probe.pc = "done" /\ probe.type = "HTTP"
    /\ probe.timeoutSeconds = 4 /\ probe.startedAt = 2
    /\ probe.perDeadline = 4 /\ probe.now = 4
    /\ ~probe.res.ok /\ probe.res.error # ""

\* C25: once the context given to Service.Run is cancelled, the context of
\* a probe in flight is cancelled too.
ParentCancelPropagates ==
    (probe.parentDone /\ probe.pc = "runOne") => PerDone

\* C26: every CheckResult row the subscriber writes has status DONE exactly
\* when the envelope's ok is true and FAILED exactly when it is false, an id
\* no other row has, the envelope's taskId as assignmentId, the envelope's
\* startedAt, and the bytes of a consumed message as payload.
ResultRowMapping ==
    LET Written ==
            checkResults
            \cup UNION { subWorker[w].tx.results : w \in SubWorkers }
    IN  \A r \in Written :
          /\ \E o \in 1..Len(resultTopic) : resultTopic[o].value = r.payload
          /\ r.status \in {"DONE", "FAILED"}
          /\ r.status = "DONE" <=> r.payload.ok
          /\ r.status = "FAILED" <=> ~r.payload.ok
          /\ r.assignmentId = r.payload.taskId
          /\ r.startedAt = r.payload.startedAt
          /\ r.id < nextResultId
          /\ \A q \in Written : q.id = r.id => q = r

\* Both a DONE and a FAILED row were committed.
ResultRowMappingWitness ==
    /\ \E r \in checkResults : r.status = "DONE" /\ r.startedAt = 7
    /\ \E r \in checkResults : r.status = "FAILED" /\ r.startedAt = 8

\* C27: a row is marked sent only after a PushMessage for it succeeded, a
\* failed PushMessage leaves the row as it was, a sent row has sentAt set and
\* was published at least once, and sent never goes back to false.
OutboxRowState ==
    /\ [](\A r \in outbox :
            r.sent => /\ r.sentAt # 0
                      /\ \E e \in pushLog : e.id = r.id /\ e.ok)
    /\ [][/\ \A r \in outbox :
               r.sent => \E q \in outbox' : q.id = r.id /\ q.sent
          /\ \A r \in outbox : \A q \in outbox' :
               (q.id = r.id /\ ~r.sent /\ q.sent) =>
                   \E e \in pushLog : e.id = r.id /\ e.ok
          /\ \A e \in pushLog' \ pushLog : ~e.ok => outbox' = outbox]_vars

\* A row whose first publish failed and whose second one succeeded is sent.
OutboxRowStateWitness ==
    \E r \in outbox :
        /\ r.sent /\ r.sentAt # 0
        /\ \E e \in pushLog : e.id = r.id /\ ~e.ok
        /\ \E e \in pushLog : e.id = r.id /\ e.ok

\* C28: after the publisher's context is cancelled, Run eventually closes
\* the channel and returns and every worker exits.
PublisherShutdown ==
    ctxDone ~> (/\ runPc = "stopped" /\ pipeClosed
                /\ \A w \in Workers : worker[w].pc = "stopped")

\* C29: once the context of an open result stream is cancelled,
\* StreamResults eventually returns, and unless a write to the socket failed
\* it returns right after a done frame, whatever results the request has.
StreamCancelCloses ==
    /\ (streamPc = "ctxDone") ~> (streamPc \in {"cancelled", "broken"})
    /\ [](streamPc = "cancelled" =>
            /\ frames # <<>>
            /\ frames[Len(frames)] = BareDone)
    /\ [][streamPc = "ctxDone" =>
            streamPc' \in {"ctxDone", "cancelled", "broken"}]_vars

\* The stream was cancelled after a snapshot, answered one more tick with an
\* error frame, then wrote done and returned.
StreamCancelClosesWitness ==
    /\ streamPc = "cancelled"
    /\ Len(frames) = 3
    /\ frames[1].type = "snapshot" /\ frames[2].type = "error"
    /\ frames[3] = BareDone

\* C30: no operation changes the status of a CheckRequest or of an
\* Assignment after creation: both stay PENDING in every reachable state,
\* also after all results of the request were ingested; and a task with an
\* empty checks list produces no ResultEnvelope.
StatusStaysPending ==
    /\ \A r \in requests : r.status = "PENDING"
    /\ \A a \in assignments : a.status = "PENDING"
    /\ agentTask.checks = <<>> => produced = <<>>

\* The agent returned from a task with checks and every result of the
\* request is a committed CheckResult row.
StatusStaysPendingWitness ==
    /\ agentRun = "returned"
    /\ agentTask.checks # <<>>
    /\ Cardinality({ cr \in checkResults : cr.assignmentId = StreamRequest })
         = Len(agentTask.checks)
    /\ \E a \in assignments : a.requestId = StreamRequest

\* The agent ran a task with an empty checks list to its end.
EmptyTaskRan ==
    /\ agentTask.checks = <<>>
    /\ agentRun = "returned" /\ agentPc = "idle"

\* C31: traceroute geo cache. Within one agent process the geo-IP backend is
\* asked at most once per public IP per TTL window: after a successful
\* resolution of an IP, no later resolution of that IP within the TTL, in the
\* same or in a later run, asks the backend again.
GeoAskedOncePerTTL ==
    \A i, j \in 1..Len(trace.geoLog) :
        (/\ i < j
         /\ trace.geoLog[i].ip = trace.geoLog[j].ip
         /\ trace.geoLog[i].ok)
            => trace.geoLog[j].at >= trace.geoLog[i].at + ttl

\* C32: when the hop loop has ended, the hops are the valid IPv4 addresses
\* of the tool output, each exactly once and in the order of their first
\* occurrence; an address of 10/8, 172.16-31, 192.168/16, 100.64-127, 127/8
\* or 169.254/16 has no coordinates, and a public hop has coordinates exactly
\* when its resolution succeeded.
HopsListCorrect ==
    LET RECURSIVE Words(_)
        Words(lines) ==
            IF lines = <<>> THEN <<>> ELSE Head(lines) \o Words(Tail(lines))
        words == Words(trace.output)
        Valid(w) == ipRe(w) /\ validIPv4(w)
        First(w) == CHOOSE k \in 1..Len(words) :
                        /\ words[k] = w
                        /\ \A m \in 1..(k - 1) : words[m] # w
        Private(ip) ==
            LET a == Atoi(ip[1]).n
                b == Atoi(ip[2]).n
            IN  \/ a \in {10, 127}
                \/ a = 172 /\ b \in 16..31
                \/ a = 192 /\ b = 168
                \/ a = 100 /\ b \in 64..127
                \/ a = 169 /\ b = 254
        hops == trace.hops
    IN  /\ (trace.pc = "hops" /\ Len(hops) = Len(trace.ips)) =>
              /\ \A k \in 1..Len(words) :
                    Valid(words[k]) =>
                        Cardinality({h \in 1..Len(hops) :
                                        hops[h].ip = words[k]}) = 1
              /\ \A h \in 1..Len(hops) :
                    \E k \in 1..Len(words) :
                        words[k] = hops[h].ip /\ Valid(words[k])
              /\ \A g, h \in 1..Len(hops) :
                    g < h => First(hops[g].ip) < First(hops[h].ip)
        /\ \A h \in 1..Len(hops) :
              /\ Private(hops[h].ip) => ~hops[h].geo
              /\ ~Private(hops[h].ip) =>
                    (hops[h].geo <=>
                        \E e \in trace.mapt : e.ip = hops[h].ip)

\* C32 witness: a finished hop loop over an output that names an address
\* twice, with a private hop, a resolved hop and a hop that failed to resolve.
HopsListCorrectWitness ==
    /\ trace.pc = "hops" /\ Len(trace.hops) = Len(trace.ips)
    /\ \E g, h \in 1..Len(trace.hops) :
          /\ trace.hops[g].geo
          /\ ~trace.hops[h].geo /\ ~isPrivateOrReserved(trace.hops[h].ip)
    /\ \E ln \in 1..Len(trace.output) :
          \E j, k \in 1..Len(trace.output[ln]) :
              j < k /\ trace.output[ln][j] = trace.output[ln][k]
                    /\ ipRe(trace.output[ln][j])

\* C33: App.Shutdown of the backend runs every teardown step (database,
\* Redis, HTTP server, both GeoDB readers) even when an earlier one fails,
\* and it returns a non-nil error exactly when at least one step failed.
ShutdownAggregates ==
    (mainProc.kind = "backend" /\ shutdown.pc = "done") =>
        /\ shutdown.ran = {"db", "rdb", "http", "asn", "country"}
        /\ shutdown.ret = "error" <=> shutdown.fails # {}

\* C37: process shutdown never sends on a closed channel. The goroutine that
\* forwards Run's result is never blocked in its send on the errors channel
\* when the channel is closed, and never sends on it afterwards.
NoSendOnClosed ==
    ~(mainProc.closed /\ mainProc.run \in {"sending", "panicked"})

\* C34: the list of GetResultsByRequestID, and every list sent on the
\* stream, has exactly one item per CheckResult row persisted for the
\* request, also for a broadcast request with several assignments.
OneItemPerResult ==
    LET rows == { cr \in checkResults : cr.assignmentId = StreamRequest }
    IN  /\ \A list \in SelectResultsByRequestID(StreamRequest) :
              Len(list) = Cardinality(rows)
        /\ \A k \in 1..Len(frames) :
              frames[k].hasData => Len(frames[k].data) <= Cardinality(rows)

\* C35: with several subscriber workers and offsets committed cumulatively
\* per partition, no offset is acknowledged while an earlier message of the
\* partition is still inside a worker's transaction: whatever the committed
\* position covers has been committed to the database.
AckCoversOnlyCommitted ==
    \A v \in SubWorkers :
        subWorker[v].pc \in {"process", "insertInbox", "insertResult",
                             "commit"}
            => ~\E o \in acked : o > subWorker[v].msg.offset

\* C39: region derivation is total and covers the region set. For every
\* continent code the geo database can return, Lookup gives one of EU, US
\* and APAC, and each of the three is given for at least one code.
RegionsCovered ==
    /\ \A c \in Continents : Lookup(c) \in {"EU", "US", "APAC"}
    /\ \A r \in {"EU", "US", "APAC"} : \E c \in Continents : Lookup(c) = r
    /\ \A r \in requests : r.clientRegion \in {"EU", "US", "APAC"}

\* C36: no head-of-line blocking in the outbox. Rows whose publish fails
\* permanently do not keep any other unsent row, whose publish would
\* succeed, from eventually being selected and published.
NoHeadOfLineBlocking ==
    \A id \in RowIds \ RefusedIds :
        (\E r \in outbox : r.id = id /\ ~r.sent)
            => <>(\E e \in pushLog : e.id = id /\ e.ok)

\* C38: after its context was cancelled, Subscriber.Run (and Service.Run of
\* the agent, which is the same loop) eventually returns and all its workers
\* exit, also when the channel is full and the workers have already stopped;
\* a message left in the channel is never acknowledged.
SubscriberShutdown ==
    /\ subRun.ctxDone ~> (/\ subRun.pc = "stopped"
                          /\ \A w \in SubWorkers : subWorker[w].pc = "stopped")
    /\ [][(\A w \in SubWorkers : subWorker[w].pc = "stopped")
             => acked' = acked]_vars

====
